---- MODULE Spec2Model ----
(***************************************************************************)
(* USSD share-price subscription service (app.py, db.py).                  *)
(*                                                                         *)
(* A text is a sequence of one-character strings, so that split('*'),      *)
(* startswith, int(), isdigit() and lower() are computed as Python         *)
(* computes them.  A response is the sequence of the string pieces the     *)
(* handler concatenates; its first piece is the CON/END marker whenever    *)
(* the code emits one.  The subscribers table is the sequence of its rows. *)
(***************************************************************************)
EXTENDS Integers, Sequences, FiniteSets, TLC

VARIABLES subscribers, CURRENT_STOCKS_DATA, stocks_file, inflight, req, resp,
          log, scheduler, status_file, clock, sms_log

vars == <<subscribers, CURRENT_STOCKS_DATA, stocks_file, inflight, req, resp,
          log, scheduler, status_file, clock, sms_log>>

\* the scheduler process, its status file, the wall clock and the SMS gateway
scheduler_vars == <<scheduler, status_file, clock, sms_log>>

(***************************************************************************)
(* Bounds of the model.                                                    *)
(***************************************************************************)
\* number of entries of the large catalog (the display shows the first 10)
BigCatalog == 12

(***************************************************************************)
(* Python string operations.                                               *)
(***************************************************************************)
Digits == <<"0", "1", "2", "3", "4", "5", "6", "7", "8", "9">>

IsDigitChar(c) == \E i \in 1..10 : Digits[i] = c

DigitVal(c) == (CHOOSE i \in 1..10 : Digits[i] = c) - 1

\* str.isdigit(): non-empty and every character a digit
isdigit(s) == Len(s) > 0 /\ \A i \in 1..Len(s) : IsDigitChar(s[i])

\* str.lower() over the letters the texts use
LowerChar(c) ==
    CASE c = "A" -> "a"
      [] c = "D" -> "d"
      [] c = "X" -> "x"
      [] OTHER -> c

lower(s) == [i \in 1..Len(s) |-> LowerChar(s[i])]

\* text.startswith(prefix)
startswith(text, prefix) ==
    /\ Len(text) >= Len(prefix)
    /\ SubSeq(text, 1, Len(prefix)) = prefix

\* text.split('*'): the pieces between the stars, always at least one piece
RECURSIVE split(_)
split(text) ==
    IF \A i \in 1..Len(text) : text[i] # "*"
    THEN <<text>>
    ELSE LET k == CHOOSE i \in 1..Len(text) :
                     text[i] = "*" /\ \A j \in 1..(i - 1) : text[j] # "*"
         IN  <<SubSeq(text, 1, k - 1)>> \o split(SubSeq(text, k + 1, Len(text)))

\* "*".join(parts)
RECURSIVE join(_)
join(parts) ==
    IF Len(parts) = 0 THEN <<>>
    ELSE IF Len(parts) = 1 THEN parts[1]
    ELSE parts[1] \o <<"*">> \o join(Tail(parts))

\* str.strip() of blanks
RECURSIVE strip(_)
strip(s) ==
    IF Len(s) > 0 /\ s[1] = " " THEN strip(Tail(s))
    ELSE IF Len(s) > 0 /\ s[Len(s)] = " " THEN strip(SubSeq(s, 1, Len(s) - 1))
    ELSE s

RECURSIVE DecimalValue(_)
DecimalValue(s) ==
    IF Len(s) = 0 THEN 0
    ELSE 10 * DecimalValue(SubSeq(s, 1, Len(s) - 1)) + DigitVal(s[Len(s)])

\* the result of int(s): blanks stripped, an optional sign, then digits give
\* the value; anything else raises ValueError
int(s) ==
    LET t == strip(s)
        signed == Len(t) > 0 /\ t[1] \in {"+", "-"}
        body == IF signed THEN Tail(t) ELSE t
    IN  IF ~isdigit(body) THEN [raises |-> TRUE, value |-> 0]
        ELSE IF signed /\ t[1] = "-"
             THEN [raises |-> FALSE, value |-> 0 - DecimalValue(body)]
             ELSE [raises |-> FALSE, value |-> DecimalValue(body)]

\* the decimal text of a small natural number, as an f-string renders it
str(n) == ToString(n)

Range(seq) == {seq[i] : i \in 1..Len(seq)}

(***************************************************************************)
(* The stock catalog: cleaned_stock_prices.json and CURRENT_STOCKS_DATA.   *)
(* A price is held in cents.                                               *)
(***************************************************************************)
AllStocks ==
    << [name |-> "Safaricom", price |-> 1550], [name |-> "KCB", price |-> 4000],
       [name |-> "Equity", price |-> 4525],    [name |-> "EABL", price |-> 17000],
       [name |-> "Absa", price |-> 9240],      [name |-> "Co-op", price |-> 1300],
       [name |-> "BAT", price |-> 35000],      [name |-> "NCBA", price |-> 4100],
       [name |-> "Bamburi", price |-> 5500],   [name |-> "KenGen", price |-> 310],
       [name |-> "KPLC", price |-> 455],       [name |-> "Stanbic", price |-> 11000],
       [name |-> "Britam", price |-> 575],     [name |-> "Jubilee", price |-> 18000] >>

SmallCatalog == SubSeq(AllStocks, 1, 2)

LargeCatalog == SubSeq(AllStocks, 1, BigCatalog)

\* what cleaned_stock_prices.json may hold
StocksFiles ==
    { [kind |-> "missing", stocks |-> <<>>],
      [kind |-> "dict", stocks |-> SmallCatalog],
      [kind |-> "dict", stocks |-> LargeCatalog] }

\* load_stocks_data(): the new value of CURRENT_STOCKS_DATA
load_stocks_data(file) ==
    CASE file.kind = "missing" -> <<>>
      [] file.kind = "empty"   -> <<>>
      [] file.kind = "invalid" -> <<>>
      [] file.kind = "dict"    -> file.stocks
      [] file.kind = "list"    -> file.stocks
      [] OTHER                 -> <<>>

\* the price as the format spec .2f renders it
FormatPrice(cents) ==
    LET frac == cents % 100
    IN  <<str(cents \div 100), ".", str(frac \div 10), str(frac % 10)>>

(***************************************************************************)
(* db.py: the subscribers table, a sequence of rows.                       *)
(***************************************************************************)
None == [none |-> TRUE]

json_dumps(list) == [json |-> list]

json_loads(column) == column.json

\* cursor.fetchone() of SELECT * ... WHERE phone_number = ?
get_subscriber(table, phone_number) ==
    IF \E i \in 1..Len(table) : table[i].phone_number = phone_number
    THEN table[CHOOSE i \in 1..Len(table) :
                   /\ table[i].phone_number = phone_number
                   /\ \A j \in 1..(i - 1) : table[j].phone_number # phone_number]
    ELSE None

\* add_subscriber without the commit: the row is never stored
add_subscriber_uncommitted(table, phone_number) == table

\* add_subscriber on a table without the PRIMARY KEY: the INSERT never fails
add_subscriber_unkeyed(table, phone_number) ==
    Append(table, [phone_number |-> phone_number,
                   subscribed_stocks |-> json_dumps(<<>>),
                   market_open_notify |-> 0,
                   market_close_notify |-> 0])

\* INSERT of a row with an empty list and the column defaults; the PRIMARY
\* KEY makes it fail (IntegrityError, caught) when the phone has a row
add_subscriber(table, phone_number) ==
    IF \E i \in 1..Len(table) : table[i].phone_number = phone_number
    THEN table
    ELSE Append(table, [phone_number |-> phone_number,
                        subscribed_stocks |-> json_dumps(<<>>),
                        market_open_notify |-> 0,
                        market_close_notify |-> 0])

\* what add_subscriber returns: True after the INSERT, False on IntegrityError
add_subscriber_returns(table, phone_number) ==
    IF \E i \in 1..Len(table) : table[i].phone_number = phone_number
    THEN "False" ELSE "True"

\* remove_subscriber with the WHERE clause left out: every row is deleted
remove_subscriber_everyone(table, phone_number) == <<>>

\* DELETE ... WHERE phone_number = ?
remove_subscriber(table, phone_number) ==
    LET keep(row) == row.phone_number # phone_number
    IN  SelectSeq(table, keep)

\* UPDATE ... SET subscribed_stocks = ? WHERE phone_number = ?
\* the UPDATE never committed: the table stays as it was
update_subscribed_stocks_uncommitted(table, phone_number, stocks_json) == table

\* INSERT OR REPLACE in place of the UPDATE: a phone without a row gets one
update_subscribed_stocks_upsert(table, phone_number, stocks_json) ==
    IF \E i \in 1..Len(table) : table[i].phone_number = phone_number
    THEN [i \in 1..Len(table) |->
            IF table[i].phone_number = phone_number
            THEN [table[i] EXCEPT !.subscribed_stocks = stocks_json]
            ELSE table[i]]
    ELSE Append(table, [phone_number |-> phone_number, subscribed_stocks |-> stocks_json,
                        market_open_notify |-> 0, market_close_notify |-> 0])

update_subscribed_stocks(table, phone_number, stocks_json) ==
    [i \in 1..Len(table) |->
        IF table[i].phone_number = phone_number
        THEN [table[i] EXCEPT !.subscribed_stocks = stocks_json]
        ELSE table[i]]

\* the UPDATE writes 1 whatever the value passed
update_notification_preference_enable(table, phone_number, preference_type, value) ==
    [i \in 1..Len(table) |->
        IF table[i].phone_number = phone_number
        THEN IF preference_type = "market_open_notify"
             THEN [table[i] EXCEPT !.market_open_notify = 1]
             ELSE [table[i] EXCEPT !.market_close_notify = 1]
        ELSE table[i]]

\* the UPDATE sets both preference columns to the value
update_notification_preference_both(table, phone_number, preference_type, value) ==
    [i \in 1..Len(table) |->
        IF table[i].phone_number = phone_number
        THEN [table[i] EXCEPT !.market_open_notify = value, !.market_close_notify = value]
        ELSE table[i]]

\* UPDATE ... SET <preference_type> = ? WHERE phone_number = ?
update_notification_preference(table, phone_number, preference_type, value) ==
    [i \in 1..Len(table) |->
        IF table[i].phone_number = phone_number
        THEN IF preference_type = "market_open_notify"
             THEN [table[i] EXCEPT !.market_open_notify = value]
             ELSE [table[i] EXCEPT !.market_close_notify = value]
        ELSE table[i]]

(***************************************************************************)
(* app.py: the texts of the responses.                                     *)
(***************************************************************************)
CON == "CON "

END == "END "

\* the main menu with its last option left out
main_menu_without_unsubscribe ==
    <<CON, "Welcome to Share Price Tracker!\n", "1. Subscribe\n",
      "2. View Stocks\n", "3. My Subscriptions\n">>

main_menu_response ==
    <<CON, "Welcome to Share Price Tracker!\n", "1. Subscribe\n",
      "2. View Stocks\n", "3. My Subscriptions\n", "4. Unsubscribe">>

\* the lines f"{i+1}. {name}\n" of names[from..], numbered from `from`
RECURSIVE NumberedLines(_, _)
NumberedLines(names, from) ==
    IF from > Len(names) THEN <<>>
    ELSE <<str(from), ". ", names[from], "\n">> \o NumberedLines(names, from + 1)

\* the slice list[:n]
Slice(list, n) == SubSeq(list, 1, IF Len(list) < n THEN Len(list) ELSE n)

Names(stocks) == [i \in 1..Len(stocks) |-> stocks[i].name]

\* display_stocks_menu without its test for an empty catalog
display_stocks_menu_unguarded(current, file) ==
    LET data == IF current = <<>> THEN load_stocks_data(file) ELSE current
    IN  [data |-> data,
         menu |-> <<"Available Stocks:\n">>
                  \o NumberedLines(Names(Slice(data, 10)), 1)
                  \o <<"Enter stock number to select.\n", "0. Back to Main Menu">>]

\* display_stocks_menu loading the catalog from the file on every call
display_stocks_menu_reloading(current, file) ==
    LET data == load_stocks_data(file)
    IN  [data |-> data,
         menu |-> IF data = <<>>
                  THEN <<"No stock data available at the moment. Please try again later.">>
                  ELSE <<"Available Stocks:\n">>
                       \o NumberedLines(Names(Slice(data, 10)), 1)
                       \o <<"Enter stock number to select.\n", "0. Back to Main Menu">>]

\* display_stocks_menu: loads the catalog when CURRENT_STOCKS_DATA is empty,
\* then renders its first 10 entries; gives the catalog held afterwards and
\* the menu text
display_stocks_menu(current, file) ==
    LET data == IF current = <<>> THEN load_stocks_data(file) ELSE current
    IN  [data |-> data,
         menu |-> IF data = <<>>
                  THEN <<"No stock data available at the moment. Please try again later.">>
                  ELSE <<"Available Stocks:\n">>
                       \o NumberedLines(Names(Slice(data, 10)), 1)
                       \o <<"Enter stock number to select.\n", "0. Back to Main Menu">>]

my_subscriptions_menu ==
    <<"1. Manage Subscribed Stocks\n", "2. Set Notification Preferences\n",
      "0. Back to Main Menu">>

\* the subscribed stocks numbered as enumerate() counts them, from 0
RECURSIVE JoinedLinesFromZero(_, _)
JoinedLinesFromZero(names, from) ==
    IF from > Len(names) THEN <<>>
    ELSE <<str(from - 1), ". ", names[from]>>
         \o (IF from < Len(names) THEN <<"\n">> ELSE <<>>)
         \o JoinedLinesFromZero(names, from + 1)

\* "\n".join(f"{i+1}. {s}") of the subscribed stocks
RECURSIVE JoinedLines(_, _)
JoinedLines(names, from) ==
    IF from > Len(names) THEN <<>>
    ELSE <<str(from), ". ", names[from]>>
         \o (IF from < Len(names) THEN <<"\n">> ELSE <<>>)
         \o JoinedLines(names, from + 1)

OnOff(flag) == IF flag # 0 THEN "ON" ELSE "OFF"

preferences_menu(market_open, market_close) ==
    <<"1. Market Open: ", OnOff(market_open), "\n",
      "2. Market Close: ", OnOff(market_close), "\n",
      "Select an option to toggle.\n", "0. Back to Main Menu">>

\* the "not found" error sent with the marker of a menu
subscriber_not_found_as_menu ==
    <<CON, "Error: Subscriber not found. Please re-subscribe.">>

subscriber_not_found == <<END, "Error: Subscriber not found. Please re-subscribe.">>

(***************************************************************************)
(* app.py: the request handler, one step per database call.  A run is the  *)
(* record of the request being handled (f), the table, the catalog held in *)
(* memory, the catalog file and the response.                              *)
(***************************************************************************)
NewRequest(phone_number, text) ==
    [phone_number |-> phone_number, text |-> text, pc |-> "start",
     subscriber |-> None, name |-> "", db_calls |-> <<>>]

\* the handler returns `response`
Return(c, response) == [c EXCEPT !.f.pc = "done", !.resp = response]

\* the handler returns display_stocks_menu(...) alone, the prefix forgotten
ReturnStocksMenuAlone(c, prefix) ==
    LET d == display_stocks_menu(c.data, c.file)
    IN  [c EXCEPT !.f.pc = "done", !.data = d.data, !.resp = d.menu]

\* the handler returns `prefix` followed by display_stocks_menu(...)
ReturnWithStocksMenu(c, prefix) ==
    LET d == display_stocks_menu(c.data, c.file)
    IN  [c EXCEPT !.f.pc = "done", !.data = d.data, !.resp = prefix \o d.menu]

\* a mutating call of db.py on the table, and what it returned
Write(c, call, returned, table) ==
    [c EXCEPT !.table = table, !.f.db_calls = Append(@, <<call, returned>>)]

\* the selection reads the catalog afresh from the file
stocks_in_file(c) == load_stocks_data(c.file)

\* the global CURRENT_STOCKS_DATA as the selection handlers read it
stocks_in_memory(c) == c.data

\* the membership test left out: every selection is taken as new
never_subscribed(selected_stock_name, subscribed_stocks) == FALSE

\* selected_stock_name in subscribed_stocks
is_subscribed(selected_stock_name, subscribed_stocks) ==
    selected_stock_name \in Range(subscribed_stocks)

\* handle_stock_selection up to its get_subscriber
handle_stock_selection(c) ==
    LET parts == split(c.f.text)
        selected_option == parts[Len(parts)]
        n == int(selected_option)
        index == n.value - 1
    IN  IF selected_option = <<"0">> THEN Return(c, main_menu_response)
        ELSE IF n.raises
        THEN ReturnWithStocksMenu(c, <<CON, "Invalid input. Please enter a number.\n">>)
        ELSE IF 0 <= index /\ index < Len(stocks_in_memory(c))
        THEN LET selected_stock_name == stocks_in_memory(c)[index + 1].name
                 subscriber == get_subscriber(c.table, c.f.phone_number)
             IN  IF subscriber = None THEN Return(c, subscriber_not_found)
                 ELSE IF ~is_subscribed(selected_stock_name,
                                        json_loads(subscriber.subscribed_stocks))
                 THEN [c EXCEPT !.f.pc = "update_selected",
                                !.f.subscriber = subscriber,
                                !.f.name = selected_stock_name]
                 ELSE Return(c, <<CON, "You are already subscribed to ", selected_stock_name, ".\n",
                                  "1. Subscribe to another stock\n", "0. Back to Main Menu">>)
        ELSE ReturnWithStocksMenu(c, <<CON, "Invalid stock number. Please try again.\n">>)

\* handle_stock_selection from its update_subscribed_stocks
update_selected(c) ==
    LET subscribed_stocks == Append(json_loads(c.f.subscriber.subscribed_stocks), c.f.name)
        written == Write(c, "update_subscribed_stocks", "None",
                         update_subscribed_stocks(c.table, c.f.phone_number,
                                                  json_dumps(subscribed_stocks)))
    IN  Return(written, <<CON, "Successfully subscribed to ", c.f.name, ".\n",
                          "1. Subscribe to another stock\n", "0. Back to Main Menu">>)

\* the details path taken for a selection: 2*<n> subscribes to the stock
handle_view_stock_details_selecting(c) == handle_stock_selection(c)

\* handle_view_stock_details
handle_view_stock_details(c) ==
    LET parts == split(c.f.text)
        selected_option == parts[Len(parts)]
        n == int(selected_option)
        index == n.value - 1
    IN  IF selected_option = <<"0">> THEN Return(c, main_menu_response)
        ELSE IF n.raises
        THEN ReturnWithStocksMenu(c, <<CON, "Invalid input. Please enter a number.\n">>)
        ELSE IF 0 <= index /\ index < Len(stocks_in_memory(c))
        THEN Return(c, <<END, stocks_in_memory(c)[index + 1].name, ": Ksh ">>
                       \o FormatPrice(stocks_in_memory(c)[index + 1].price)
                       \o <<"\n", "Data in real-time.">>)
        ELSE ReturnWithStocksMenu(c, <<CON, "Invalid stock number. Please try again.\n">>)

\* subscribed_stocks.pop() without its argument: the last element goes
pop_last(list, remove_index) == SubSeq(list, 1, Len(list) - 1)

\* the list after subscribed_stocks.pop(remove_index)
pop(list, remove_index) ==
    SubSeq(list, 1, remove_index) \o SubSeq(list, remove_index + 2, Len(list))

current_subscriptions_footer ==
    <<"\n", "Enter stock number to remove, or 'add' to add new stocks.\n",
      "0. Back to Main Menu">>

\* handle_manage_subscribed_stocks up to its update_subscribed_stocks
handle_manage_subscribed_stocks(c) ==
    LET parts == split(c.f.text)
        action == parts[Len(parts)]
        subscriber == get_subscriber(c.table, c.f.phone_number)
        subscribed_stocks == json_loads(subscriber.subscribed_stocks)
        n == int(action)
        remove_index == n.value - 1
    IN  IF subscriber = None THEN Return(c, subscriber_not_found)
        ELSE IF action = <<"0">> THEN Return(c, main_menu_response)
        ELSE IF lower(action) = <<"a", "d", "d">>
        THEN ReturnWithStocksMenu(c, <<CON, "Select stocks to add:\n">>)
        ELSE IF Len(parts) >= 3 /\ lower(parts[3]) = <<"a", "d", "d">> /\ isdigit(action)
        THEN [c EXCEPT !.f.pc = "handle_stock_selection",
                       !.f.text = <<"1", "*">> \o action]
        ELSE IF n.raises
        THEN Return(c, <<CON, "Invalid input. Please enter a number or 'add'.\n",
                         "Your current subscriptions:\n">>
                       \o JoinedLines(subscribed_stocks, 1) \o current_subscriptions_footer)
        ELSE IF 0 <= remove_index /\ remove_index < Len(subscribed_stocks)
        THEN [c EXCEPT !.f.pc = "update_removed", !.f.subscriber = subscriber,
                       !.f.name = subscribed_stocks[remove_index + 1]]
        ELSE Return(c, <<CON, "Invalid stock number to remove. Please try again.\n",
                         "Your current subscriptions:\n">>
                       \o JoinedLines(subscribed_stocks, 1) \o current_subscriptions_footer)

\* handle_manage_subscribed_stocks from its update_subscribed_stocks
update_removed(c) ==
    LET parts == split(c.f.text)
        remove_index == int(parts[Len(parts)]).value - 1
        subscribed_stocks == pop(json_loads(c.f.subscriber.subscribed_stocks), remove_index)
        written == Write(c, "update_subscribed_stocks", "None",
                         update_subscribed_stocks(c.table, c.f.phone_number,
                                                  json_dumps(subscribed_stocks)))
    IN  Return(written, <<CON, "Removed ", c.f.name, " from your subscriptions.\n">>
                        \o my_subscriptions_menu)

\* handle_notification_preference up to its update_notification_preference
handle_notification_preference(c) ==
    LET parts == split(c.f.text)
        option == parts[Len(parts)]
        subscriber == get_subscriber(c.table, c.f.phone_number)
    IN  IF subscriber = None THEN Return(c, subscriber_not_found)
        ELSE IF option = <<"1">> \/ option = <<"2">>
        THEN [c EXCEPT !.f.pc = "update_preference", !.f.subscriber = subscriber]
        ELSE IF option = <<"0">> THEN Return(c, main_menu_response)
        ELSE Return(c, <<CON, "Invalid option. Please select 1 or 2.\n">>
                       \o preferences_menu(subscriber.market_open_notify,
                                           subscriber.market_close_notify))

\* handle_notification_preference from its update_notification_preference
update_preference(c) ==
    LET parts == split(c.f.text)
        option == parts[Len(parts)]
        current_market_open == c.f.subscriber.market_open_notify
        current_market_close == c.f.subscriber.market_close_notify
    IN  IF option = <<"1">>
        THEN LET new_value == IF current_market_open = 0 THEN 1 ELSE 0
                 written == Write(c, "update_notification_preference", "None",
                                  update_notification_preference(
                                      c.table, c.f.phone_number, "market_open_notify", new_value))
             IN  Return(written, <<CON, "Set Notification Preferences:\n">>
                                 \o preferences_menu(new_value, current_market_close))
        ELSE LET new_value == IF current_market_close = 0 THEN 1 ELSE 0
                 written == Write(c, "update_notification_preference", "None",
                                  update_notification_preference(
                                      c.table, c.f.phone_number, "market_close_notify", new_value))
             IN  Return(written, <<CON, "Set Notification Preferences:\n">>
                                 \o preferences_menu(current_market_open, new_value))

\* ussd_callback up to its first database call
ussd_callback_start(c) ==
    LET text == c.f.text
        subscriber == get_subscriber(c.table, c.f.phone_number)
        subscribed_stocks == json_loads(subscriber.subscribed_stocks)
    IN  IF text = <<>> THEN Return(c, main_menu_response)
        ELSE IF text = <<"1">>
        THEN IF subscriber # None
             THEN Return(c, <<END, "You are already subscribed! Choose '3' to manage your subscriptions.">>)
             ELSE [c EXCEPT !.f.pc = "add_subscriber"]
        ELSE IF startswith(text, <<"1", "*">>) THEN handle_stock_selection(c)
        ELSE IF text = <<"2">> THEN ReturnWithStocksMenu(c, <<CON>>)
        ELSE IF startswith(text, <<"2", "*">>) THEN handle_view_stock_details(c)
        ELSE IF text = <<"3">>
        THEN IF subscriber = None
             THEN Return(c, <<END, "You are not subscribed. Dial again and select '1' to subscribe.">>)
             ELSE Return(c, <<CON, "My Subscriptions:\n">> \o my_subscriptions_menu)
        ELSE IF text = <<"3", "*", "1">>
        THEN IF subscriber # None
             THEN IF subscribed_stocks = <<>>
                  THEN ReturnWithStocksMenu(c, <<CON, "You have no stocks subscribed yet.\n">>)
                  ELSE Return(c, <<CON, "Your current subscriptions:\n">>
                                 \o NumberedLines(subscribed_stocks, 1)
                                 \o <<"--- Add/Remove ---\n",
                                      "Enter stock number to remove, or 'add' to add new stocks.\n",
                                      "0. Back to Main Menu">>)
             ELSE Return(c, <<END, "Error: Subscriber not found.">>)
        ELSE IF startswith(text, <<"3", "*", "1", "*">>) THEN handle_manage_subscribed_stocks(c)
        ELSE IF text = <<"3", "*", "2">>
        THEN IF subscriber # None
             THEN Return(c, <<CON, "Set Notification Preferences:\n">>
                            \o preferences_menu(subscriber.market_open_notify,
                                                subscriber.market_close_notify))
             ELSE Return(c, <<END, "Error: Subscriber not found.">>)
        ELSE IF startswith(text, <<"3", "*", "2", "*">>) THEN handle_notification_preference(c)
        ELSE IF text = <<"4">>
        THEN Return(Write(c, "remove_subscriber", "None",
                          remove_subscriber(c.table, c.f.phone_number)),
                    <<END, "You have successfully unsubscribed from Stock Price Tracker. Goodbye!">>)
        ELSE Return(c, <<END, "Invalid input. Please try again.">>)

\* ussd_callback, branch '1', from its add_subscriber
subscribe(c) ==
    ReturnWithStocksMenu(
        Write(c, "add_subscriber", add_subscriber_returns(c.table, c.f.phone_number),
              add_subscriber(c.table, c.f.phone_number)),
        <<CON, "You have successfully subscribed!\n", "Now, let's select stocks to track.\n">>)

\* the path replayed from its first segment: a text 1*... subscribes the
\* phone again before it takes the selection
StepReplaying(c) ==
    IF c.f.pc = "start" /\ startswith(c.f.text, <<"1", "*">>)
    THEN handle_stock_selection(
             Write(c, "add_subscriber", add_subscriber_returns(c.table, c.f.phone_number),
                   add_subscriber(c.table, c.f.phone_number)))
    ELSE CASE c.f.pc = "start"                  -> ussd_callback_start(c)
           [] c.f.pc = "add_subscriber"         -> subscribe(c)
           [] c.f.pc = "handle_stock_selection" -> handle_stock_selection(c)
           [] c.f.pc = "update_selected"        -> update_selected(c)
           [] c.f.pc = "update_removed"         -> update_removed(c)
           [] c.f.pc = "update_preference"      -> update_preference(c)

\* the next step of the request being handled
Step(c) ==
    CASE c.f.pc = "start"                  -> ussd_callback_start(c)
      [] c.f.pc = "add_subscriber"         -> subscribe(c)
      [] c.f.pc = "handle_stock_selection" -> handle_stock_selection(c)
      [] c.f.pc = "update_selected"        -> update_selected(c)
      [] c.f.pc = "update_removed"         -> update_removed(c)
      [] c.f.pc = "update_preference"      -> update_preference(c)

\* the handler run from its first line to its return
RECURSIVE Run(_)
Run(c) == IF c.f.pc = "done" THEN c ELSE Run(Step(c))

(***************************************************************************)
(* The requests the model sends.                                           *)
(***************************************************************************)
Subscriber == "254700000000"

Neighbour == "254711111111"

Phones == {Subscriber, Neighbour}

\* a text from its parts
T(parts) == join(parts)

add == <<"a", "d", "d">>

\* the texts of the path grammar, with replies in and out of range
GrammarTexts ==
    { <<>>, T(<<<<"1">>>>), T(<<<<"2">>>>), T(<<<<"3">>>>), T(<<<<"4">>>>),
      T(<<<<"1">>, <<"1">>>>), T(<<<<"1">>, <<"2">>>>), T(<<<<"1">>, <<"1", "1">>>>),
      T(<<<<"1">>, <<"1", "5">>>>), T(<<<<"1">>, <<"0">>>>), T(<<<<"1">>, <<"x">>>>),
      T(<<<<"2">>, <<"1">>>>), T(<<<<"2">>, <<"1", "1">>>>), T(<<<<"2">>, <<"1", "5">>>>),
      T(<<<<"2">>, <<"0">>>>), T(<<<<"2">>, <<>>>>),
      T(<<<<"3">>, <<"1">>>>), T(<<<<"3">>, <<"2">>>>),
      T(<<<<"3">>, <<"1">>, add>>), T(<<<<"3">>, <<"1">>, <<"A", "D", "D">>>>),
      T(<<<<"3">>, <<"1">>, add, <<"1">>>>), T(<<<<"3">>, <<"1">>, add, <<"2">>>>),
      T(<<<<"3">>, <<"1">>, add, <<"x">>>>),
      T(<<<<"3">>, <<"1">>, <<"1">>>>), T(<<<<"3">>, <<"1">>, <<"2">>>>),
      T(<<<<"3">>, <<"1">>, <<"3">>>>), T(<<<<"3">>, <<"1">>, <<"4">>>>),
      T(<<<<"3">>, <<"1">>, <<"0">>>>), T(<<<<"3">>, <<"1">>, <<"x">>>>),
      T(<<<<"3">>, <<"1">>, <<" ", "1">>>>), T(<<<<"3">>, <<"1">>, <<"-", "1">>>>),
      T(<<<<"3">>, <<"2">>, <<"1">>>>), T(<<<<"3">>, <<"2">>, <<"2">>>>),
      T(<<<<"3">>, <<"2">>, <<"0">>>>), T(<<<<"3">>, <<"2">>, <<"3">>>>) }

\* texts of no pattern of the path grammar
OtherTexts ==
    { T(<<<<"5">>>>), T(<<<<"1", "0">>>>), T(<<<<"3">>, <<"3">>>>), T(<<<<"4">>, <<"1">>>>),
      T(<<<<"2">>, <<"1">>, <<"5">>>>), T(<<<<"1">>, <<"1">>, <<"2">>>>),
      T(<<<<"1">>, <<"0">>, <<"2">>>>), T(<<<<"3">>, <<"1">>, <<"2">>, <<"1">>>>),
      T(<<<<"3">>, <<"2">>, <<"1">>, <<"2">>>>), T(<<<<"3">>, <<"1">>, add, <<"1">>, <<"2">>>>) }

\* the second phone subscribes, toggles and unsubscribes
NeighbourTexts ==
    { T(<<<<"1">>>>), T(<<<<"3">>, <<"2">>, <<"2">>>>), T(<<<<"4">>>>) }

Texts(phone_number) ==
    IF phone_number = Subscriber THEN GrammarTexts \cup OtherTexts ELSE NeighbourTexts

(***************************************************************************)
(* wen.py: the scheduler's clock, status file and messages.                *)
(***************************************************************************)
MARKET_OPEN_HOUR == 8

MARKET_CLOSE_HOUR == 15

MARKET_CLOSE_MINUTE_BUFFER == 5

SCRAPE_INTERVAL_MINUTES == 5

\* the days of the model are 0..MaxDay
MaxDay == 2

\* how many times the scheduler process is started
MaxStarts == 2

\* now.weekday() of day 0: a Thursday
FirstWeekday == 3

MinutesPerDay == 1440

\* the minutes of a day at which the model lets the loop wake: 00:05, 07:50,
\* 08:00, 08:06, 08:12, 15:02 and 15:07
TickMinutes == <<5, 470, 480, 486, 492, 902, 907>>

\* datetime.now(), in minutes since 00:00 of day 0
datetime_now(clk) == [at |-> clk.day * MinutesPerDay + TickMinutes[clk.slot]]

hour(clk) == TickMinutes[clk.slot] \div 60

minute(clk) == TickMinutes[clk.slot] % 60

\* now.weekday(): Monday is 0, Sunday is 6
weekday(clk) == (FirstWeekday + clk.day) % 7

\* strftime("%Y-%m-%d")
today_date_str(clk) == [date |-> clk.day]

isoformat(time) == [iso |-> time.at]

fromisoformat(string) == [at |-> string.iso]

is_weekday(clk) == 0 <= weekday(clk) /\ weekday(clk) <= 4

\* market_open_dt_time <= dt_time(hour, minute) <= market_close_dt_time
is_during_market_hours(clk) ==
    /\ TickMinutes[clk.slot] >= MARKET_OPEN_HOUR * 60
    /\ TickMinutes[clk.slot] <= MARKET_CLOSE_HOUR * 60 + MARKET_CLOSE_MINUTE_BUFFER

\* the kind whose notification window holds the tick, "" when none does
notification_window(clk) ==
    IF is_weekday(clk) /\ hour(clk) = MARKET_OPEN_HOUR /\ minute(clk) < 10 THEN "open"
    ELSE IF is_weekday(clk) /\ hour(clk) = MARKET_CLOSE_HOUR /\ minute(clk) < 10
    THEN "close"
    ELSE ""

NeverSent == [open |-> None, close |-> None]

\* the status file never read: the defaults whatever it holds
load_last_notification_status_defaults(file) ==
    [last_notification_sent |-> NeverSent, last_scrape_time |-> None]

\* load_last_notification_status(): the dates and the scrape time string;
\* the defaults for a file that is missing or is not JSON
load_last_notification_status(file) ==
    IF file.kind = "json"
    THEN [last_notification_sent |-> file.last_notification_sent,
          last_scrape_time |-> file.last_scrape_time]
    ELSE [last_notification_sent |-> NeverSent, last_scrape_time |-> None]

\* save_last_notification_status(): the status file it writes
save_last_notification_status(last_notification_sent, last_scrape_time) ==
    [kind |-> "json", last_notification_sent |-> last_notification_sent,
     last_scrape_time |-> last_scrape_time]

\* last_scrape_time.isoformat() if last_scrape_time else None
isoformat_or_None(time) == IF time = None THEN None ELSE isoformat(time)

\* the file never read: a fixed list of prices whatever the file holds
get_current_stock_prices_fixed(file) == [raises |-> FALSE, stocks |-> SmallCatalog]

\* get_current_stock_prices(): data.get("stocks", data) of the file's JSON;
\* a list has no get, and AttributeError is not among the exceptions caught
get_current_stock_prices(file) ==
    CASE file.kind \in {"missing", "empty", "invalid"} ->
            [raises |-> FALSE, stocks |-> <<>>]
      [] file.kind = "dict" -> [raises |-> FALSE, stocks |-> file.stocks]
      [] file.kind = "list" -> [raises |-> TRUE, stocks |-> <<>>]
      [] OTHER -> [raises |-> TRUE, stocks |-> <<>>]

\* SELECT phone_number, subscribed_stocks, ... FROM subscribers
get_all_subscribers(table) == table

\* str.lower() of a stock name
name_lower(name) ==
    CASE name = "Safaricom" -> "safaricom"
      [] name = "KCB" -> "kcb"
      [] name = "Equity" -> "equity"
      [] name = "EABL" -> "eabl"
      [] name = "Absa" -> "absa"
      [] name = "Co-op" -> "co-op"
      [] name = "BAT" -> "bat"
      [] name = "NCBA" -> "ncba"
      [] name = "Bamburi" -> "bamburi"
      [] name = "KenGen" -> "kengen"
      [] name = "KPLC" -> "kplc"
      [] name = "Stanbic" -> "stanbic"
      [] name = "Britam" -> "britam"
      [] name = "Jubilee" -> "jubilee"
      [] OTHER -> name

\* stock_dict.get(stock_name.lower()): the price of the last entry of that
\* lower-cased name, None when there is none
stock_dict_get(current_stocks, stock_name) ==
    LET same == {i \in 1..Len(current_stocks) :
                    name_lower(current_stocks[i].name) = name_lower(stock_name)}
    IN  IF same = {} THEN None
        ELSE [price |-> current_stocks[CHOOSE i \in same : \A j \in same : j <= i].price]

capitalize(notification_type) == IF notification_type = "open" THEN "Open" ELSE "Close"

RECURSIVE message_parts(_, _, _)
message_parts(subscribed_stocks, current_stocks, from) ==
    IF from > Len(subscribed_stocks) THEN <<>>
    ELSE LET stock_name == subscribed_stocks[from]
             price == stock_dict_get(current_stocks, stock_name)
         IN  <<"\n", stock_name>>
             \o (IF price # None THEN <<": Ksh ">> \o FormatPrice(price.price)
                 ELSE <<": Price N/A">>)
             \o message_parts(subscribed_stocks, current_stocks, from + 1)

\* the text of the SMS for one subscriber
message(notification_type, subscribed_stocks, current_stocks) ==
    IF subscribed_stocks = <<>>
    THEN <<"Market ", notification_type,
           " update: No stocks selected for notifications. Dial USSD to select.">>
    ELSE <<"Market ", capitalize(notification_type), " Update:">>
         \o message_parts(subscribed_stocks, current_stocks, 1)

\* every subscriber is sent every kind
send_to_everyone(notification_type, subscriber) == TRUE

\* send_notification: the subscriber's flag of the kind is 1
send_notification(notification_type, subscriber) ==
    \/ notification_type = "open" /\ subscriber.market_open_notify = 1
    \/ notification_type = "close" /\ subscriber.market_close_notify = 1

NoBatch ==
    [notification_type |-> "", today_date_str |-> None, subscribers |-> <<>>,
     current_stocks |-> <<>>, i |-> 0]

\* the scheduler process when it is not running
Stopped ==
    [pc |-> "down", now |-> None, last_notification_sent |-> NeverSent,
     last_scrape_time |-> None, batch |-> NoBatch, starts |-> 0, raised |-> ""]

\* no scheduler: the process down, no status file, 00:05 of day 0
SchedulerOff ==
    /\ scheduler = Stopped
    /\ status_file = [kind |-> "missing"]
    /\ clock = [day |-> 0, slot |-> 1]
    /\ sms_log = <<>>

(***************************************************************************)
(* The service handling one request at a time.                             *)
(***************************************************************************)
Workers == {1, 2}

Idle == [NewRequest("", <<>>) EXCEPT !.pc = "idle"]

Init ==
    /\ subscribers = <<>>
    /\ stocks_file \in StocksFiles
    /\ CURRENT_STOCKS_DATA = load_stocks_data(stocks_file)
    /\ inflight = [w \in Workers |-> Idle]
    /\ req = [phone_number |-> "", text |-> <<>>, db_calls |-> <<>>]
    /\ resp = <<>>
    /\ log = <<>>
    /\ SchedulerOff

\* /ussd: one request handled from arrival to response
ussd_callback(phone_number, text) ==
    \E c \in {Run([f |-> NewRequest(phone_number, text), table |-> subscribers,
                  data |-> CURRENT_STOCKS_DATA, file |-> stocks_file, resp |-> <<>>])} :
        /\ subscribers' = c.table
        /\ CURRENT_STOCKS_DATA' = c.data
        /\ req' = [phone_number |-> phone_number, text |-> text,
                   db_calls |-> c.f.db_calls]
        /\ resp' = c.resp
        /\ UNCHANGED <<stocks_file, inflight>>

Next == \E phone_number \in Phones : \E text \in Texts(phone_number) :
            ussd_callback(phone_number, text) /\ UNCHANGED <<log, scheduler_vars>>

Spec == Init /\ [][Next]_vars

(***************************************************************************)
(* The service handling requests concurrently (the development server is   *)
(* threaded): a request advances by one step, that is one database call,   *)
(* at a time.                                                              *)
(***************************************************************************)
ConcurrentTexts ==
    { T(<<<<"1">>>>), T(<<<<"1">>, <<"1">>>>), T(<<<<"3">>, <<"1">>, <<"1">>>>),
      T(<<<<"3">>, <<"2">>, <<"1">>>>), T(<<<<"4">>>>) }

InitConcurrent ==
    /\ Init
    /\ stocks_file = [kind |-> "dict", stocks |-> SmallCatalog]

\* a request arrives and a thread takes it
Accept(w, phone_number, text) ==
    /\ inflight[w].pc = "idle"
    /\ inflight' = [inflight EXCEPT ![w] = NewRequest(phone_number, text)]
    /\ UNCHANGED <<subscribers, CURRENT_STOCKS_DATA, stocks_file, req, resp, log,
                   scheduler_vars>>

\* the thread runs its request up to and including the next database call
Advance(w) ==
    /\ inflight[w].pc # "idle"
    /\ \E c \in {Step([f |-> inflight[w], table |-> subscribers,
                       data |-> CURRENT_STOCKS_DATA, file |-> stocks_file,
                       resp |-> <<>>])} :
        /\ subscribers' = c.table
        /\ CURRENT_STOCKS_DATA' = c.data
        /\ IF c.f.pc = "done"
           THEN /\ inflight' = [inflight EXCEPT ![w] = Idle]
                /\ req' = [phone_number |-> inflight[w].phone_number,
                           text |-> inflight[w].text, db_calls |-> c.f.db_calls]
                /\ resp' = c.resp
           ELSE /\ inflight' = [inflight EXCEPT ![w] = c.f]
                /\ UNCHANGED <<req, resp>>
    /\ UNCHANGED <<stocks_file, log, scheduler_vars>>

NextConcurrent ==
    \/ \E w \in Workers : \E phone_number \in Phones : \E text \in ConcurrentTexts :
           Accept(w, phone_number, text)
    \/ \E w \in Workers : Advance(w)

SpecConcurrent == InitConcurrent /\ [][NextConcurrent]_vars

(***************************************************************************)
(* Two requests for two different phones handled at the same time: both    *)
(* arrive together, the threads interleave at the database calls, and the  *)
(* table the two found is kept for comparison.                             *)
(***************************************************************************)
\* two requests for different phones arrive and each thread takes one
AcceptBoth(first, second, first_text, second_text) ==
    /\ first # second
    /\ \A w \in Workers : inflight[w].pc = "idle"
    /\ inflight' = [w \in Workers |-> IF w = 1 THEN NewRequest(first, first_text)
                                      ELSE NewRequest(second, second_text)]
    /\ log' = <<[table |-> subscribers,
                 requests |-> <<[phone_number |-> first, text |-> first_text],
                                [phone_number |-> second, text |-> second_text]>>]>>
    /\ UNCHANGED <<subscribers, CURRENT_STOCKS_DATA, stocks_file, req, resp,
                   scheduler_vars>>

NextIndependent ==
    \/ \E first, second \in Phones : \E first_text, second_text \in ConcurrentTexts :
           AcceptBoth(first, second, first_text, second_text)
    \/ \E w \in Workers : Advance(w)

SpecIndependent == InitConcurrent /\ [][NextIndependent]_vars

(***************************************************************************)
(* Two requests of one phone handled at the same time: both arrive         *)
(* together and the threads interleave at the database calls.              *)
(***************************************************************************)
SamePhoneTexts ==
    { T(<<<<"1">>>>), T(<<<<"1">>, <<"1">>>>), T(<<<<"1">>, <<"2">>>>),
      T(<<<<"3">>, <<"1">>, <<"1">>>>), T(<<<<"3">>, <<"1">>, <<"2">>>>),
      T(<<<<"3">>, <<"2">>, <<"1">>>>), T(<<<<"4">>>>) }

\* two requests of the phone arrive and each thread takes one
AcceptSame(phone_number, first_text, second_text) ==
    /\ \A w \in Workers : inflight[w].pc = "idle"
    /\ inflight' = [w \in Workers |-> IF w = 1 THEN NewRequest(phone_number, first_text)
                                      ELSE NewRequest(phone_number, second_text)]
    /\ log' = <<[table |-> subscribers,
                 requests |-> <<[phone_number |-> phone_number, text |-> first_text],
                                [phone_number |-> phone_number, text |-> second_text]>>]>>
    /\ UNCHANGED <<subscribers, CURRENT_STOCKS_DATA, stocks_file, req, resp,
                   scheduler_vars>>

NextSamePhone ==
    \/ \E first_text, second_text \in SamePhoneTexts :
           AcceptSame(Subscriber, first_text, second_text)
    \/ \E w \in Workers : Advance(w)

SpecSamePhone == InitConcurrent /\ [][NextSamePhone]_vars

(***************************************************************************)
(* One phone's dialogue: a bounded sequence of requests, each recorded     *)
(* with its response and the table it left.                                *)
(***************************************************************************)
SessionLength == 4

SessionTexts ==
    { <<"1">>, T(<<<<"1">>, <<"1">>>>), T(<<<<"3">>, <<"1">>>>),
      T(<<<<"3">>, <<"1">>, <<"1">>>>), T(<<<<"3">>, <<"2">>, <<"1">>>>),
      T(<<<<"3">>, <<"2">>, <<"2">>>>) }

InitSession == Init

\* the phone's next request, handled from arrival to response
session_request(text) ==
    /\ Len(log) < SessionLength
    /\ ussd_callback(Subscriber, text)
    /\ log' = Append(log, [text |-> text, resp |-> resp', table |-> subscribers'])
    /\ UNCHANGED scheduler_vars

NextSession == \E text \in SessionTexts : session_request(text)

SpecSession == InitSession /\ [][NextSession]_vars

(***************************************************************************)
(* The service while the scheduler's scraper rewrites the catalog file.    *)
(***************************************************************************)
ReorderedCatalog == <<AllStocks[2], AllStocks[1], AllStocks[3]>>

\* what cleaned_stock_prices.json may hold when the service starts
CatalogFiles ==
    { [kind |-> "missing", stocks |-> <<>>],
      [kind |-> "empty", stocks |-> <<>>],
      [kind |-> "invalid", stocks |-> <<>>],
      [kind |-> "other", stocks |-> <<>>],
      [kind |-> "list", stocks |-> SmallCatalog],
      [kind |-> "dict", stocks |-> SmallCatalog] }

\* what send_to_gemini_for_cleaning may return; <<>> stands for no data
CleanedData == { <<>>, SmallCatalog, ReorderedCatalog }

CatalogTexts ==
    { <<"1">>, <<"2">>, <<"4">>, T(<<<<"1">>, <<"1">>>>), T(<<<<"1">>, <<"2">>>>),
      T(<<<<"2">>, <<"1">>>>), T(<<<<"2">>, <<"2">>>>), T(<<<<"3">>, <<"1">>>>),
      T(<<<<"3">>, <<"1">>, add>>), T(<<<<"3">>, <<"1">>, add, <<"1">>>>),
      T(<<<<"3">>, <<"1">>, add, <<"2">>>>) }

InitCatalog ==
    /\ subscribers = <<>>
    /\ stocks_file \in CatalogFiles
    /\ CURRENT_STOCKS_DATA = load_stocks_data(stocks_file)
    /\ inflight = [w \in Workers |-> Idle]
    /\ req = [phone_number |-> "", text |-> <<>>, db_calls |-> <<>>]
    /\ resp = <<>>
    /\ log = <<>>
    /\ SchedulerOff

\* the catalog file after scrape_and_save_stocks(): written when there is
\* cleaned data, else left as it was
scraped(file, cleaned_data) ==
    IF cleaned_data # <<>> THEN [kind |-> "dict", stocks |-> cleaned_data] ELSE file

\* scrape_and_save_stocks() run by the scheduler process
scrape_and_save_stocks(cleaned_data) ==
    /\ stocks_file' = scraped(stocks_file, cleaned_data)
    /\ UNCHANGED <<subscribers, CURRENT_STOCKS_DATA, inflight, req, resp>>

NextCatalog ==
    \/ \E text \in CatalogTexts :
           ussd_callback(Subscriber, text) /\ UNCHANGED <<log, scheduler_vars>>
    \/ \E cleaned_data \in CleanedData :
           scrape_and_save_stocks(cleaned_data) /\ UNCHANGED <<log, scheduler_vars>>

SpecCatalog == InitCatalog /\ [][NextCatalog]_vars

(***************************************************************************)
(* wen.py: the scheduler process beside the service.  A tick of its loop   *)
(* runs up to the first SMS of a batch; each subscriber of the batch and   *)
(* the recording of the batch are steps of their own, and the process can  *)
(* be stopped between any two steps and started again.                     *)
(***************************************************************************)
SchedulerTable ==
    << [phone_number |-> Subscriber,
        subscribed_stocks |-> json_dumps(<<"Safaricom", "Stanbic">>),
        market_open_notify |-> 1, market_close_notify |-> 0],
       [phone_number |-> Neighbour, subscribed_stocks |-> json_dumps(<<>>),
        market_open_notify |-> 0, market_close_notify |-> 1] >>

SchedulerTexts == { T(<<<<"3">>, <<"2">>, <<"1">>>>) }

SchedulerCleanedData == { <<>>, SmallCatalog }

InitScheduler ==
    /\ subscribers = SchedulerTable
    /\ stocks_file \in { [kind |-> "missing", stocks |-> <<>>],
                         [kind |-> "empty", stocks |-> <<>>],
                         [kind |-> "invalid", stocks |-> <<>>],
                         [kind |-> "list", stocks |-> SmallCatalog],
                         [kind |-> "dict", stocks |-> SmallCatalog] }
    /\ CURRENT_STOCKS_DATA = load_stocks_data(stocks_file)
    /\ inflight = [w \in Workers |-> Idle]
    /\ req = [phone_number |-> "", text |-> <<>>, db_calls |-> <<>>]
    /\ resp = <<>>
    /\ log = <<>>
    /\ scheduler = Stopped
    /\ status_file \in { [kind |-> "missing"], [kind |-> "invalid"] }
    /\ clock = [day |-> 0, slot |-> 1]
    /\ sms_log = <<>>

service_vars == <<subscribers, CURRENT_STOCKS_DATA, inflight, req, resp, log>>

\* the process ends with an uncaught exception
Raised(sch, exception) == [Stopped EXCEPT !.starts = sch.starts, !.raised = exception]

\* __main__ and run_scheduler up to its loop
main(cleaned_data) ==
    /\ scheduler.pc = "down"
    /\ scheduler.starts < MaxStarts
    /\ stocks_file' = scraped(stocks_file, cleaned_data)
    /\ LET loaded == load_last_notification_status(status_file)
       IN  scheduler' =
             [Stopped EXCEPT
                !.pc = "awake",
                !.starts = scheduler.starts + 1,
                !.last_notification_sent = loaded.last_notification_sent,
                !.last_scrape_time =
                    IF loaded.last_scrape_time # None
                    THEN fromisoformat(loaded.last_scrape_time)
                    ELSE [at |-> datetime_now(clock).at - (SCRAPE_INTERVAL_MINUTES + 1)]]
    /\ UNCHANGED <<service_vars, status_file, clock, sms_log>>

\* one pass of the loop of run_scheduler: the periodic scrape, then
\* send_market_notification up to its loop over the subscribers, or the
\* reset of 00:05
run_scheduler(cleaned_data) ==
    /\ scheduler.pc = "awake"
    /\ LET now == clock
           due == is_weekday(now) /\ is_during_market_hours(now)
       IN  IF due /\ scheduler.last_scrape_time = None
           THEN /\ scheduler' = Raised(scheduler, "TypeError")
                /\ UNCHANGED <<stocks_file, status_file>>
           ELSE LET scrape == due /\ datetime_now(now).at - scheduler.last_scrape_time.at
                                      >= SCRAPE_INTERVAL_MINUTES
                    file == IF scrape THEN scraped(stocks_file, cleaned_data)
                            ELSE stocks_file
                    last_scrape_time == IF scrape THEN datetime_now(now)
                                        ELSE scheduler.last_scrape_time
                    status == IF scrape
                              THEN save_last_notification_status(
                                       scheduler.last_notification_sent,
                                       isoformat(last_scrape_time))
                              ELSE status_file
                    looping == [scheduler EXCEPT !.now = now,
                                                 !.last_scrape_time = last_scrape_time]
                    notification_type == notification_window(now)
                    prices == get_current_stock_prices(file)
                IN  /\ stocks_file' = file
                    /\ IF /\ notification_type # ""
                          /\ looping.last_notification_sent[notification_type]
                                # today_date_str(now)
                       THEN /\ status_file' = status
                            /\ scheduler' =
                                 IF prices.raises THEN Raised(scheduler, "AttributeError")
                                 ELSE IF prices.stocks = <<>>
                                 THEN [looping EXCEPT !.pc = "sleep"]
                                 ELSE [looping EXCEPT
                                         !.pc = "sending",
                                         !.batch =
                                            [notification_type |-> notification_type,
                                             today_date_str |-> today_date_str(now),
                                             subscribers |-> get_all_subscribers(subscribers),
                                             current_stocks |-> prices.stocks,
                                             i |-> 1]]
                       ELSE IF /\ hour(now) = 0 /\ minute(now) = 5
                               /\ looping.last_notification_sent.open # today_date_str(now)
                       THEN /\ status_file' = save_last_notification_status(NeverSent, None)
                            /\ scheduler' = [looping EXCEPT
                                               !.pc = "sleep",
                                               !.last_notification_sent = NeverSent,
                                               !.last_scrape_time = None]
                       ELSE /\ status_file' = status
                            /\ scheduler' = [looping EXCEPT !.pc = "sleep"]
    /\ UNCHANGED <<service_vars, clock, sms_log>>

\* send_market_notification: one turn of its loop over the subscribers
send_market_notification ==
    /\ scheduler.pc = "sending"
    /\ scheduler.batch.i <= Len(scheduler.batch.subscribers)
    /\ LET batch == scheduler.batch
           subscriber == batch.subscribers[batch.i]
       IN  sms_log' =
             IF send_notification(batch.notification_type, subscriber)
             THEN Append(sms_log,
                         [to |-> subscriber.phone_number,
                          notification_type |-> batch.notification_type,
                          date |-> batch.today_date_str,
                          message |-> message(batch.notification_type,
                                              json_loads(subscriber.subscribed_stocks),
                                              batch.current_stocks)])
             ELSE sms_log
    /\ scheduler' = [scheduler EXCEPT !.batch.i = @ + 1]
    /\ UNCHANGED <<service_vars, stocks_file, status_file, clock>>

\* send_market_notification after its loop: the date is recorded and saved
record_notification_sent ==
    /\ scheduler.pc = "sending"
    /\ scheduler.batch.i > Len(scheduler.batch.subscribers)
    /\ LET sent == [scheduler.last_notification_sent EXCEPT
                       ![scheduler.batch.notification_type] =
                           scheduler.batch.today_date_str]
       IN  /\ scheduler' = [scheduler EXCEPT !.pc = "sleep", !.batch = NoBatch,
                                             !.last_notification_sent = sent]
           /\ status_file' = save_last_notification_status(
                                 sent, isoformat_or_None(scheduler.last_scrape_time))
    /\ UNCHANGED <<service_vars, stocks_file, clock, sms_log>>

\* the clock at the next minute the loop wakes at
later(clk) ==
    IF clk.slot < Len(TickMinutes) THEN [clk EXCEPT !.slot = @ + 1]
    ELSE [day |-> clk.day + 1, slot |-> 1]

\* time.sleep(60) at the end of the loop, up to the next minute of the model
time_sleep ==
    /\ scheduler.pc = "sleep"
    /\ later(clock).day <= MaxDay
    /\ clock' = later(clock)
    /\ scheduler' = [scheduler EXCEPT !.pc = "awake"]
    /\ UNCHANGED <<service_vars, stocks_file, status_file, sms_log>>

\* time passes while the process is not running
downtime ==
    /\ scheduler.pc = "down"
    /\ later(clock).day <= MaxDay
    /\ clock' = later(clock)
    /\ UNCHANGED <<service_vars, stocks_file, status_file, sms_log, scheduler>>

\* the process is stopped from outside, wherever it is
stopped ==
    /\ scheduler.pc # "down"
    /\ scheduler.starts < MaxStarts
    /\ scheduler' = [Stopped EXCEPT !.starts = scheduler.starts]
    /\ UNCHANGED <<service_vars, stocks_file, status_file, clock, sms_log>>

NextScheduler ==
    \/ \E cleaned_data \in SchedulerCleanedData : main(cleaned_data)
    \/ \E cleaned_data \in SchedulerCleanedData : run_scheduler(cleaned_data)
    \/ send_market_notification
    \/ record_notification_sent
    \/ time_sleep
    \/ downtime
    \/ stopped
    \/ \E text \in SchedulerTexts :
           ussd_callback(Subscriber, text) /\ UNCHANGED <<log, scheduler_vars>>

SpecScheduler == InitScheduler /\ [][NextScheduler]_vars

(***************************************************************************)
(* The service with a store that can fail: a call of db.py raises          *)
(* sqlite3.OperationalError, nothing in db.py or in ussd_callback catches  *)
(* it, and Flask answers the request itself.                               *)
(***************************************************************************)
MaxStoreCalls == 3

StoreFailureTexts ==
    { <<>>, T(<<<<"1">>>>), T(<<<<"2">>>>), T(<<<<"1">>, <<"1">>>>),
      T(<<<<"3">>, <<"1">>, <<"1">>>>), T(<<<<"3">>, <<"1">>, add, <<"2">>>>),
      T(<<<<"3">>, <<"2">>, <<"1">>>>), T(<<<<"4">>>>) }

InitStoreFailure ==
    /\ Init
    /\ stocks_file = [kind |-> "dict", stocks |-> SmallCatalog]

\* the function of db.py the next step of the handler calls, "" when the
\* step calls none
store_call(c) ==
    LET text == c.f.text
        parts == split(text)
        selected_option == parts[Len(parts)]
        n == int(selected_option)
        selection == IF /\ selected_option # <<"0">>
                        /\ ~n.raises
                        /\ 0 <= n.value - 1
                        /\ n.value - 1 < Len(stocks_in_memory(c))
                     THEN "get_subscriber" ELSE ""
    IN  CASE c.f.pc = "add_subscriber"         -> "add_subscriber"
          [] c.f.pc = "update_selected"        -> "update_subscribed_stocks"
          [] c.f.pc = "update_removed"         -> "update_subscribed_stocks"
          [] c.f.pc = "update_preference"      -> "update_notification_preference"
          [] c.f.pc = "handle_stock_selection" -> selection
          [] c.f.pc = "start" ->
                IF text = <<>> THEN ""
                ELSE IF text = <<"1">> THEN "get_subscriber"
                ELSE IF startswith(text, <<"1", "*">>) THEN selection
                ELSE IF text = <<"2">> \/ startswith(text, <<"2", "*">>) THEN ""
                ELSE IF text = <<"3">> THEN "get_subscriber"
                ELSE IF text = <<"3", "*", "1">> \/ startswith(text, <<"3", "*", "1", "*">>)
                THEN "get_subscriber"
                ELSE IF text = <<"3", "*", "2">> \/ startswith(text, <<"3", "*", "2", "*">>)
                THEN "get_subscriber"
                ELSE IF text = <<"4">> THEN "remove_subscriber"
                ELSE ""

\* what Flask answers when the view function raises: status 500, with the
\* debugger's traceback page when the app runs with debug=True
InternalServerError(debug) ==
    IF debug
    THEN <<"500 INTERNAL SERVER ERROR", "Traceback (most recent call last):",
           "sqlite3.OperationalError">>
    ELSE <<"500 INTERNAL SERVER ERROR", "Internal Server Error">>

\* the call of db.py raises and the exception leaves ussd_callback
Raise(c, debug) ==
    [c EXCEPT !.f.pc = "raised",
              !.f.db_calls = Append(@, <<store_call(c), "OperationalError">>),
              !.resp = InternalServerError(debug)]

\* the handler run from its first line, its k-th call of db.py raising
RECURSIVE RunRaising(_, _, _)
RunRaising(c, k, debug) ==
    IF c.f.pc = "done" THEN c
    ELSE IF store_call(c) = "" THEN RunRaising(Step(c), k, debug)
    ELSE IF k = 1 THEN Raise(c, debug)
    ELSE RunRaising(Step(c), k - 1, debug)

\* /ussd: one request during which a call of db.py raises
ussd_callback_raising(phone_number, text, k, debug) ==
    \E c \in {RunRaising([f |-> NewRequest(phone_number, text), table |-> subscribers,
                         data |-> CURRENT_STOCKS_DATA, file |-> stocks_file,
                         resp |-> <<>>], k, debug)} :
        /\ c.f.pc = "raised"
        /\ subscribers' = c.table
        /\ CURRENT_STOCKS_DATA' = c.data
        /\ req' = [phone_number |-> phone_number, text |-> text,
                   db_calls |-> c.f.db_calls]
        /\ resp' = c.resp
        /\ UNCHANGED <<stocks_file, inflight>>

NextStoreFailure ==
    \E phone_number \in Phones : \E text \in StoreFailureTexts :
        \/ ussd_callback(phone_number, text) /\ UNCHANGED <<log, scheduler_vars>>
        \/ \E k \in 1..MaxStoreCalls : \E debug \in BOOLEAN :
              /\ ussd_callback_raising(phone_number, text, k, debug)
              /\ UNCHANGED <<log, scheduler_vars>>

SpecStoreFailure == InitStoreFailure /\ [][NextStoreFailure]_vars

(***************************************************************************)
(* What the claims speak of.                                               *)
(***************************************************************************)
\* a request has been answered
Answered == req.phone_number \in Phones

\* the subscription list stored for a phone that has a row
StocksOf(table, phone_number) ==
    json_loads(get_subscriber(table, phone_number).subscribed_stocks)

Occurrences(list, x) == Cardinality({i \in 1..Len(list) : list[i] = x})

\* the response shows the numbered menu line "<n>. <name>"
ShowsLine(response, n, name) ==
    \E i \in 1..(Len(response) - 2) :
        response[i] = str(n) /\ response[i + 1] = ". " /\ response[i + 2] = name

ErrorLines ==
    { "Invalid stock number. Please try again.\n",
      "Invalid input. Please enter a number.\n",
      "Invalid input. Please try again.",
      "Error: Subscriber not found. Please re-subscribe." }

InvalidInput == <<END, "Invalid input. Please try again.">>

\* the text has the shape of a row of the path grammar table
MatchesGrammar(text) ==
    LET parts == split(text)
    IN  \/ text = <<>>
        \/ Len(parts) = 1 /\ parts[1] \in {<<"1">>, <<"2">>, <<"3">>, <<"4">>}
        \/ Len(parts) = 2 /\ parts[1] \in {<<"1">>, <<"2">>}
        \/ Len(parts) = 2 /\ parts[1] = <<"3">> /\ parts[2] \in {<<"1">>, <<"2">>}
        \/ Len(parts) = 3 /\ parts[1] = <<"3">> /\ parts[2] \in {<<"1">>, <<"2">>}
        \/ Len(parts) = 4 /\ parts[1] = <<"3">> /\ parts[2] = <<"1">> /\ parts[3] = add

\* the text is 1*<n> or 3*1*add*<n> with <n> a number: gives n, else 0
SelectedNumber(text) ==
    LET parts == split(text)
        last == parts[Len(parts)]
    IN  IF /\ \/ Len(parts) = 2 /\ parts[1] = <<"1">>
              \/ Len(parts) = 4 /\ parts[1] = <<"3">> /\ parts[2] = <<"1">> /\ parts[3] = add
           /\ isdigit(last)
        THEN DecimalValue(last)
        ELSE 0

\* the text is 3*1*<n> with <n> a number: gives n, else 0
RemovedNumber(text) ==
    LET parts == split(text)
    IN  IF Len(parts) = 3 /\ parts[1] = <<"3">> /\ parts[2] = <<"1">> /\ isdigit(parts[3])
        THEN DecimalValue(parts[3])
        ELSE 0

\* the list without its n-th element, the others in their order
WithoutNth(list, n) ==
    [i \in 1..(Len(list) - 1) |-> IF i < n THEN list[i] ELSE list[i + 1]]

(***************************************************************************)
(* The claims.                                                             *)
(***************************************************************************)

\* C1: every request is answered with a response whose text begins with the
\* marker CON or END, whatever the text, the phone, the table and the catalog.
C1_ResponseHasMarker ==
    Answered => Len(resp) >= 1 /\ resp[1] \in {CON, END}

\* C1 witness: the catalog menu was returned for an empty catalog
C1_Witness ==
    /\ Answered
    /\ req.text = <<"2">>
    /\ resp = <<CON, "No stock data available at the moment. Please try again later.">>

\* C2: in every row a stock name occurs at most once, and a selection answered
\* with "subscribed to X" or "already subscribed to X" leaves X exactly once in
\* the list of the phone.
C2_NamesAtMostOnce ==
    /\ \A i \in 1..Len(subscribers) :
          \A x \in Range(json_loads(subscribers[i].subscribed_stocks)) :
              Occurrences(json_loads(subscribers[i].subscribed_stocks), x) = 1
    /\ (Answered /\ Len(resp) >= 3
          /\ resp[2] \in {"Successfully subscribed to ", "You are already subscribed to "})
       => Occurrences(StocksOf(subscribers, req.phone_number), resp[3]) = 1

\* C2 witness: 3*1*add*1 for a phone that holds the first stock already
C2_Witness ==
    /\ req.text = T(<<<<"3">>, <<"1">>, add, <<"1">>>>)
    /\ resp[2] = "You are already subscribed to "
    /\ resp[3] = "Safaricom"
    /\ Len(StocksOf(subscribers, req.phone_number)) >= 2

\* C3: with a catalog of more than 10 entries, 1*<n> with n > 10 is answered
\* with an error and changes no subscription list.
C3_AboveTenRejected ==
    [][(/\ Len(split(req'.text)) = 2
        /\ SelectedNumber(req'.text) > 10
        /\ Len(CURRENT_STOCKS_DATA) > 10)
       => /\ resp'[2] \in ErrorLines
          /\ subscribers' = subscribers]_vars

\* C4: a text of no pattern of the path grammar is answered with the terminal
\* "Invalid input" response and leaves the table unchanged.
C4_OtherShapesInvalid ==
    [][~MatchesGrammar(req'.text)
       => /\ resp' = InvalidInput
          /\ subscribers' = subscribers]_vars

\* C5: when a request's text is the text of the phone's previous request
\* followed by a number n, and the previous response showed the line "n. X",
\* the request acts on X: its response names X.
C5_ReplyIndexesDisplayedList ==
    [][\A n \in 1..10 : \A name \in Range(Names(AllStocks)) :
          (/\ Answered
           /\ req'.phone_number = req.phone_number
           /\ req'.text = req.text \o <<"*">> \o
                          (IF n < 10 THEN <<Digits[n + 1]>> ELSE <<"1", "0">>)
           /\ ShowsLine(resp, n, name))
          => name \in Range(resp')]_vars

\* C6: 3*1*<n> with 1 <= n <= |L| stores L without its n-th element, the
\* other elements in their order, whatever the catalog holds.
C6_RemovesNth ==
    [][(/\ RemovedNumber(req'.text) >= 1
        /\ get_subscriber(subscribers, req'.phone_number) # None
        /\ RemovedNumber(req'.text) <= Len(StocksOf(subscribers, req'.phone_number)))
       => StocksOf(subscribers', req'.phone_number)
            = WithoutNth(StocksOf(subscribers, req'.phone_number),
                         RemovedNumber(req'.text))]_vars

\* C6 witness: 3*1*2 removed the middle one of three subscriptions
C6_Witness ==
    /\ req.text = T(<<<<"3">>, <<"1">>, <<"2">>>>)
    /\ resp[2] = "Removed "
    /\ resp[3] = "KCB"
    /\ StocksOf(subscribers, req.phone_number) = <<"KPLC", "Safaricom">>

AlreadySubscribed ==
    <<END, "You are already subscribed! Choose '3' to manage your subscriptions.">>

\* at most one row of the table has the phone
AtMostOneRow(table, phone_number) ==
    Cardinality({i \in 1..Len(table) : table[i].phone_number = phone_number}) <= 1

\* the thread w returns its response in this step
Completes(w) == inflight[w].pc # "idle" /\ inflight'[w].pc = "idle"

\* C7 as stated: a request '1' that finishes while the phone has a row is
\* answered with the terminal "already subscribed" response and leaves the
\* table as it is, also when two requests '1' for a new phone interleave.
C7_SecondSubscribeIsTerminal ==
    [][\A w \in Workers :
          (/\ Completes(w)
           /\ inflight[w].text = <<"1">>
           /\ get_subscriber(subscribers, inflight[w].phone_number) # None)
          => /\ resp' = AlreadySubscribed
             /\ subscribers' = subscribers]_vars

\* C7 amended: no phone ever has two rows; a request '1' that finishes while
\* the phone has a row leaves the table as it is; it is answered with the
\* terminal "already subscribed" response when its own get_subscriber found
\* the row, and with the non-terminal success response when the row was
\* inserted by an interleaved request after its get_subscriber.
C7_OneRowAndNoChange ==
    /\ [](\A p \in Phones : AtMostOneRow(subscribers, p))
    /\ [][\A w \in Workers :
             (/\ Completes(w)
              /\ inflight[w].text = <<"1">>
              /\ get_subscriber(subscribers, inflight[w].phone_number) # None)
             => /\ subscribers' = subscribers
                /\ IF inflight[w].pc = "start"
                   THEN resp' = AlreadySubscribed /\ req'.db_calls = <<>>
                   ELSE resp'[1] = CON
                        /\ req'.db_calls = <<<<"add_subscriber", "False">>>>]_vars

\* C7 witness: the second of two interleaved requests '1' has been answered,
\* its INSERT refused, and the phone has its one row
C7_Witness ==
    /\ req.text = <<"1">>
    /\ req.db_calls = <<<<"add_subscriber", "False">>>>
    /\ resp[1] = CON
    /\ get_subscriber(subscribers, req.phone_number) # None

\* C8: the request '1' for a phone without a row stores a row with an empty
\* list and both flags off, and is answered with a non-terminal response.
C8_SubscribeCreatesFreshRow ==
    [][(/\ req'.text = <<"1">>
        /\ get_subscriber(subscribers, req'.phone_number) = None)
       => /\ get_subscriber(subscribers', req'.phone_number)
               = [phone_number |-> req'.phone_number,
                  subscribed_stocks |-> json_dumps(<<>>),
                  market_open_notify |-> 0,
                  market_close_notify |-> 0]
          /\ resp'[1] = CON]_vars

\* C8 witness: a phone subscribed while the other phone holds a toggled flag
C8_Witness ==
    /\ req.text = <<"1">>
    /\ req.phone_number = Subscriber
    /\ req.db_calls = <<<<"add_subscriber", "True">>>>
    /\ resp[1] = CON
    /\ Len(subscribers) = 2
    /\ subscribers[1].market_close_notify = 1
    /\ subscribers[2].phone_number = Subscriber

\* C9: the request '4' is answered with a terminal response, leaves no row
\* for the phone, and leaves the rows of the other phones as they were.
C9_UnsubscribeDeletesOnlyThatRow ==
    [][req'.text = <<"4">>
       => /\ resp'[1] = END
          /\ get_subscriber(subscribers', req'.phone_number) = None
          /\ \A p \in Phones \ {req'.phone_number} :
                get_subscriber(subscribers', p) = get_subscriber(subscribers, p)]_vars

\* C9 witness: a phone unsubscribed and the other phone's row is in the table
C9_Witness ==
    /\ req.text = <<"4">>
    /\ req.phone_number = Subscriber
    /\ resp[1] = END
    /\ Len(subscribers) = 1
    /\ subscribers[1].phone_number = Neighbour
    /\ subscribers[1].market_close_notify = 1

\* C10: a selection of a stock whose name the phone's list holds makes no
\* database write and is answered "already subscribed to X"; a selection
\* writes the list only when the name was not in it.
C10_SelectionWritesOnlyNewNames ==
    [][(/\ SelectedNumber(req'.text) >= 1
        /\ SelectedNumber(req'.text) <= Len(CURRENT_STOCKS_DATA)
        /\ get_subscriber(subscribers, req'.phone_number) # None)
       => LET name == CURRENT_STOCKS_DATA[SelectedNumber(req'.text)].name
              held == name \in Range(StocksOf(subscribers, req'.phone_number))
          IN  /\ held => /\ req'.db_calls = <<>>
                         /\ subscribers' = subscribers
                         /\ resp'[2] = "You are already subscribed to "
                         /\ resp'[3] = name
              /\ ~held => req'.db_calls = <<<<"update_subscribed_stocks", "None">>>>]_vars

\* C10 witness: 1*2 answered "already subscribed to KCB" with no write
C10_Witness ==
    /\ req.text = T(<<<<"1">>, <<"2">>>>)
    /\ req.db_calls = <<>>
    /\ resp[2] = "You are already subscribed to "
    /\ resp[3] = "KCB"

\* the menu a text answers, by its shape in the path grammar, when its last
\* segment is not "0": "catalog" for 1*<s>, 2*<s> and 3*1*add*<s>,
\* "subscriptions" for 3*1*<s>, "preferences" for 3*2*<s>, else "none"
AnsweredMenu(text) ==
    LET parts == split(text)
        last == parts[Len(parts)]
    IN  IF text = <<>> \/ last = <<"0">> THEN "none"
        ELSE IF Len(parts) = 2 /\ parts[1] \in {<<"1">>, <<"2">>} THEN "catalog"
        ELSE IF Len(parts) = 4 /\ parts[1] = <<"3">> /\ parts[2] = <<"1">>
                /\ parts[3] = add
        THEN "catalog"
        ELSE IF Len(parts) = 3 /\ parts[1] = <<"3">> /\ parts[2] = <<"1">>
                /\ lower(last) # add
        THEN "subscriptions"
        ELSE IF Len(parts) = 3 /\ parts[1] = <<"3">> /\ parts[2] = <<"2">>
        THEN "preferences"
        ELSE "none"

\* the last segment of the text is no integer, or an integer outside 1..length
OutOfList(text, length) ==
    LET parts == split(text)
        n == int(parts[Len(parts)])
    IN  n.raises \/ n.value < 1 \/ n.value > length

\* the error lines that precede a redisplayed menu
InlineErrors ==
    { "Invalid stock number. Please try again.\n",
      "Invalid input. Please enter a number.\n",
      "Invalid input. Please enter a number or 'add'.\n",
      "Invalid stock number to remove. Please try again.\n",
      "Invalid option. Please select 1 or 2.\n" }

\* the response shows the menu of that kind
ShowsMenu(response, menu) ==
    CASE menu = "catalog" ->
            \/ "Available Stocks:\n" \in Range(response)
            \/ "No stock data available at the moment. Please try again later."
                   \in Range(response)
      [] menu = "subscriptions" -> "Your current subscriptions:\n" \in Range(response)
      [] menu = "preferences" -> "1. Market Open: " \in Range(response)
      [] OTHER -> FALSE

\* C11: for a phone that has a row, a text 1*<s>, 2*<s>, 3*1*<s>, 3*1*add*<s>
\* or 3*2*<s> whose <s> is not "0" and is no integer or an integer outside
\* 1..length of the list the menu showed (the catalog, the phone's
\* subscriptions, the two preferences) is answered with a non-terminal
\* response made of an error line and the same menu, and the table is
\* unchanged.
C11_InvalidReplyRedisplaysMenu ==
    [][(/\ get_subscriber(subscribers, req'.phone_number) # None
        /\ AnsweredMenu(req'.text) # "none"
        /\ OutOfList(req'.text,
                     CASE AnsweredMenu(req'.text) = "catalog" ->
                              Len(display_stocks_menu(CURRENT_STOCKS_DATA, stocks_file).data)
                       [] AnsweredMenu(req'.text) = "subscriptions" ->
                              Len(StocksOf(subscribers, req'.phone_number))
                       [] OTHER -> 2))
       => /\ resp'[1] = CON
          /\ resp'[2] \in InlineErrors
          /\ ShowsMenu(resp', AnsweredMenu(req'.text))
          /\ subscribers' = subscribers]_vars

\* C12: 3*1*<k> with k above the length of the phone's list is answered with
\* a non-terminal error that lists the current subscriptions, each under its
\* number, and the stored list is unchanged.
C12_RemovalAboveLengthRejected ==
    [][(/\ get_subscriber(subscribers, req'.phone_number) # None
        /\ RemovedNumber(req'.text) > Len(StocksOf(subscribers, req'.phone_number)))
       => /\ resp'[1] = CON
          /\ resp'[2] = "Invalid stock number to remove. Please try again.\n"
          /\ \A i \in 1..Len(StocksOf(subscribers, req'.phone_number)) :
                ShowsLine(resp', i, StocksOf(subscribers, req'.phone_number)[i])
          /\ subscribers' = subscribers]_vars

\* C12 witness: 3*1*4 answered with the error for a phone holding two or
\* three stocks, the first of them shown under 1
C12_Witness ==
    /\ req.text = T(<<<<"3">>, <<"1">>, <<"4">>>>)
    /\ resp[2] = "Invalid stock number to remove. Please try again.\n"
    /\ Len(StocksOf(subscribers, req.phone_number)) >= 2
    /\ ShowsLine(resp, 1, StocksOf(subscribers, req.phone_number)[1])

\* C13: a request whose text is 3 or begins with 3*, for a phone without a
\* row, is answered with a terminal response, makes no database write and
\* leaves the table unchanged.
C13_MySubscriptionsNeedsRow ==
    [][(/\ req'.text = <<"3">> \/ startswith(req'.text, <<"3", "*">>)
        /\ get_subscriber(subscribers, req'.phone_number) = None)
       => /\ resp'[1] = END
          /\ req'.db_calls = <<>>
          /\ subscribers' = subscribers]_vars

\* C13 witness: 3*1*add*1 answered "not found" for a phone without a row
\* while the other phone has one
C13_Witness ==
    /\ req.text = T(<<<<"3">>, <<"1">>, add, <<"1">>>>)
    /\ resp[1] = END
    /\ get_subscriber(subscribers, req.phone_number) = None
    /\ Len(subscribers) = 1

\* C16: the empty text is answered with the non-terminal main menu of the
\* four options numbered 1 to 4, and changes neither the table nor the
\* catalog, in memory or in its file.
C16_EmptyTextGivesMainMenu ==
    [][req'.text = <<>>
       => /\ resp' = <<CON, "Welcome to Share Price Tracker!\n", "1. Subscribe\n",
                       "2. View Stocks\n", "3. My Subscriptions\n", "4. Unsubscribe">>
          /\ Len(resp') = 1 + 1 + 4
          /\ subscribers' = subscribers
          /\ CURRENT_STOCKS_DATA' = CURRENT_STOCKS_DATA
          /\ stocks_file' = stocks_file]_vars

\* C16 witness: the main menu returned to a phone that has a row with stocks
C16_Witness ==
    /\ Answered
    /\ req.text = <<>>
    /\ Len(resp) = 6
    /\ resp[1] = CON
    /\ get_subscriber(subscribers, req.phone_number) # None
    /\ Len(StocksOf(subscribers, req.phone_number)) >= 1

\* the table before the i-th request of the dialogue
TableBefore(i) == IF i = 1 THEN <<>> ELSE log[i - 1].table

\* the flag a toggle text names, in the phone's row of the table
FlagOf(table, text) ==
    IF text = T(<<<<"3">>, <<"2">>, <<"1">>>>)
    THEN get_subscriber(table, Subscriber).market_open_notify
    ELSE get_subscriber(table, Subscriber).market_close_notify

\* C14: two successive requests 3*2*1 (or two successive 3*2*2) of a phone
\* that has a row leave the flag they toggle equal to its value before the
\* first of them.
C14_ToggleTwiceRestores ==
    \A i \in 1..(Len(log) - 1) :
        (/\ log[i].text \in {T(<<<<"3">>, <<"2">>, <<"1">>>>), T(<<<<"3">>, <<"2">>, <<"2">>>>)}
         /\ log[i + 1].text = log[i].text
         /\ get_subscriber(TableBefore(i), Subscriber) # None)
        => FlagOf(log[i + 1].table, log[i].text) = FlagOf(TableBefore(i), log[i].text)

\* C14 witness: after 1 and 3*2*2 the preference 1 was toggled on and off
\* again, the other preference staying on
C14_Witness ==
    /\ Len(log) = 4
    /\ log[1].text = <<"1">>
    /\ log[2].text = T(<<<<"3">>, <<"2">>, <<"2">>>>)
    /\ log[3].text = T(<<<<"3">>, <<"2">>, <<"1">>>>)
    /\ log[4].text = T(<<<<"3">>, <<"2">>, <<"1">>>>)
    /\ get_subscriber(log[3].table, Subscriber).market_open_notify = 1
    /\ get_subscriber(log[4].table, Subscriber).market_open_notify = 0
    /\ get_subscriber(log[4].table, Subscriber).market_close_notify = 1

\* the dialogue of the end-to-end scenario
EndToEnd ==
    << <<"1">>, T(<<<<"1">>, <<"1">>>>), T(<<<<"3">>, <<"1">>>>),
       T(<<<<"3">>, <<"1">>, <<"1">>>>) >>

\* the response holds the two pieces one after the other
Says(response, first, second) ==
    \E i \in 1..(Len(response) - 1) : response[i] = first /\ response[i + 1] = second

\* C15: with the catalog [Safaricom, KCB] and a phone without a row, the
\* dialogue 1, 1*1, 3*1, 3*1*1 creates the row; stores Safaricom and says
\* "Successfully subscribed to Safaricom"; lists "1. Safaricom"; removes
\* Safaricom and leaves the stored list empty.
C15_EndToEnd ==
    (/\ CURRENT_STOCKS_DATA = SmallCatalog
     /\ Len(log) <= Len(EndToEnd)
     /\ \A i \in 1..Len(log) : log[i].text = EndToEnd[i])
    => /\ Len(log) >= 1 => /\ get_subscriber(log[1].table, Subscriber) # None
                           /\ Len(log[1].table) = 1
       /\ Len(log) >= 2 => /\ StocksOf(log[2].table, Subscriber) = <<"Safaricom">>
                           /\ Says(log[2].resp, "Successfully subscribed to ", "Safaricom")
       /\ Len(log) >= 3 => /\ ShowsLine(log[3].resp, 1, "Safaricom")
                           /\ log[3].table = log[2].table
       /\ Len(log) >= 4 => /\ StocksOf(log[4].table, Subscriber) = <<>>
                           /\ Says(log[4].resp, "Removed ", "Safaricom")

\* C15 witness: the four requests of the scenario were made and answered
C15_Witness ==
    /\ CURRENT_STOCKS_DATA = SmallCatalog
    /\ Len(log) = 4
    /\ \A i \in 1..4 : log[i].text = EndToEnd[i]
    /\ StocksOf(subscribers, Subscriber) = <<>>

\* the step is the handling of a request: it produced the request's record
\* or its response
HandlesRequest == req' # req \/ resp' # resp

\* C19 as stated: the handling of a request leaves the catalog in memory
\* and the catalog file as they were.
C19_RequestLeavesCatalog ==
    [][HandlesRequest
       => /\ CURRENT_STOCKS_DATA' = CURRENT_STOCKS_DATA
          /\ stocks_file' = stocks_file]_vars

\* C19 amended: the handling of a request never changes the catalog file and
\* never changes a catalog in memory that is not empty; when the catalog in
\* memory is empty, a request that renders the catalog menu reloads it from
\* the file and leaves in memory what the file holds.
C19_RequestReloadsOnlyEmptyCatalog ==
    [][HandlesRequest
       => /\ stocks_file' = stocks_file
          /\ CURRENT_STOCKS_DATA # <<>> => CURRENT_STOCKS_DATA' = CURRENT_STOCKS_DATA
          /\ CURRENT_STOCKS_DATA = <<>> =>
                CURRENT_STOCKS_DATA' =
                   IF ShowsMenu(resp', "catalog") /\ stocks_file.kind \in {"dict", "list"}
                   THEN stocks_file.stocks
                   ELSE <<>>]_vars

\* C19 witness: the request 2 was answered with the menu of a catalog that
\* only a scrape after the start of the service could put in the file
C19_Witness ==
    /\ req.text = <<"2">>
    /\ CURRENT_STOCKS_DATA = ReorderedCatalog
    /\ ShowsLine(resp, 1, "KCB")

\* C20: when a request's text is the text of the phone's previous request,
\* 1, 2 or 3*1*add, followed by a number n, and the previous response showed
\* the catalog menu with the line "n. X", the request selects X, whatever was
\* written to the catalog file in between.
C20_MenuPositionsStable ==
    [][\A n \in 1..3 : \A name \in Range(Names(AllStocks)) :
          (/\ Answered
           /\ req.text \in {<<"1">>, <<"2">>, T(<<<<"3">>, <<"1">>, add>>)}
           /\ req'.phone_number = req.phone_number
           /\ req'.text = req.text \o <<"*", Digits[n + 1]>>
           /\ "Available Stocks:\n" \in Range(resp)
           /\ ShowsLine(resp, n, name))
          => \/ resp'[1] = END /\ resp'[2] = name
             \/ /\ resp'[2] \in {"Successfully subscribed to ",
                                  "You are already subscribed to "}
                /\ resp'[3] = name
                /\ name \in Range(StocksOf(subscribers', req'.phone_number))]_vars

\* C20 witness: 1*1 subscribed the phone to Safaricom, the first line of the
\* menu it had been shown, while the file holds a catalog that begins with
\* KCB
C20_Witness ==
    /\ req.text = T(<<<<"1">>, <<"1">>>>)
    /\ resp[2] = "Successfully subscribed to "
    /\ resp[3] = "Safaricom"
    /\ CURRENT_STOCKS_DATA = SmallCatalog
    /\ stocks_file.stocks = ReorderedCatalog

\* C17: no subscriber is sent two messages of the same kind on the same day,
\* whatever the ticks, the resets of 00:05 and the restarts of the process.
C17_AtMostOneSendPerDay ==
    \A i \in 1..Len(sms_log) : \A j \in 1..Len(sms_log) :
        (/\ i < j
         /\ sms_log[i].to = sms_log[j].to
         /\ sms_log[i].notification_type = sms_log[j].notification_type)
        => sms_log[i].date # sms_log[j].date

\* the subscriber's flag of the kind, as the row holds it
FlagFor(subscriber, notification_type) ==
    IF notification_type = "open" THEN subscriber.market_open_notify
    ELSE subscriber.market_close_notify

\* C18: a batch of kind k works on the rows the table holds when it begins;
\* each row has one turn, in which a message of kind k is sent to the row's
\* phone if and only if the row's flag for k is 1; nothing else sends a
\* message, and the batch is recorded when every row has had its turn.
C18_SendIffFlagSet ==
    [][/\ (scheduler.pc = "awake" /\ scheduler'.pc = "sending")
          => /\ scheduler'.batch.subscribers = subscribers
             /\ scheduler'.batch.i = 1
       /\ (/\ scheduler.pc = "sending" /\ scheduler'.pc = "sending"
           /\ scheduler'.batch.i # scheduler.batch.i)
          => LET batch == scheduler.batch
                 subscriber == batch.subscribers[batch.i]
             IN  /\ scheduler'.batch.i = batch.i + 1
                 /\ IF FlagFor(subscriber, batch.notification_type) = 1
                    THEN /\ Len(sms_log') = Len(sms_log) + 1
                         /\ SubSeq(sms_log', 1, Len(sms_log)) = sms_log
                         /\ sms_log'[Len(sms_log')].to = subscriber.phone_number
                         /\ sms_log'[Len(sms_log')].notification_type
                               = batch.notification_type
                    ELSE sms_log' = sms_log
       /\ sms_log' # sms_log
          => /\ scheduler.pc = "sending" /\ scheduler'.pc = "sending"
             /\ scheduler'.batch.i # scheduler.batch.i
       /\ (scheduler.pc = "sending" /\ scheduler'.pc = "sleep")
          => scheduler.batch.i = Len(scheduler.batch.subscribers) + 1]_vars

\* C18 witness: the open and the close batch of a day are recorded; the
\* phone with only the open flag got the open message and no close message,
\* the phone with only the close flag got the close message
C18_Witness ==
    /\ scheduler.pc = "sleep"
    /\ scheduler.last_notification_sent.open # None
    /\ scheduler.last_notification_sent.close = scheduler.last_notification_sent.open
    /\ \E i \in 1..Len(sms_log) :
          sms_log[i].to = Subscriber /\ sms_log[i].notification_type = "open"
    /\ \E i \in 1..Len(sms_log) :
          sms_log[i].to = Neighbour /\ sms_log[i].notification_type = "close"
    /\ \A i \in 1..Len(sms_log) :
          sms_log[i].to = Subscriber => sms_log[i].notification_type = "open"
    /\ \A i \in 1..Len(sms_log) :
          sms_log[i].to = Neighbour => sms_log[i].notification_type = "close"

\* the catalog is empty: none in memory and none to load from the file
EmptyCatalog ==
    /\ CURRENT_STOCKS_DATA = <<>>
    /\ stocks_file.kind \in {"dict", "list"} => stocks_file.stocks = <<>>

\* the text is a path that depends on the catalog for this phone: 1 for a
\* phone without a row, 3*1 for a phone with an empty list, 3*1*add and
\* 3*1*add*<n> for a phone with a row, 2, 1*<n> and 2*<n> for any phone
\* (<n> a number from 1)
CatalogDependent(table, phone_number, text) ==
    LET parts == split(text)
        subscriber == get_subscriber(table, phone_number)
        number == isdigit(parts[Len(parts)]) /\ DecimalValue(parts[Len(parts)]) >= 1
    IN  \/ text = <<"1">> /\ subscriber = None
        \/ text = <<"2">>
        \/ Len(parts) = 2 /\ parts[1] \in {<<"1">>, <<"2">>} /\ number
        \/ /\ text = T(<<<<"3">>, <<"1">>>>)
           /\ subscriber # None
           /\ StocksOf(table, phone_number) = <<>>
        \/ text = T(<<<<"3">>, <<"1">>, add>>) /\ subscriber # None
        \/ /\ Len(parts) = 4 /\ parts[1] = <<"3">> /\ parts[2] = <<"1">>
           /\ parts[3] = add /\ number /\ subscriber # None

\* C21: with an empty catalog, the handling of a catalog-dependent path is
\* answered with a response that carries the "No stock data available"
\* message, and no row's list of stocks gains a name.
C21_EmptyCatalogAnswered ==
    [][(/\ HandlesRequest
        /\ EmptyCatalog
        /\ CatalogDependent(subscribers, req'.phone_number, req'.text))
       => /\ "No stock data available at the moment. Please try again later."
                \in Range(resp')
          /\ resp'[1] \in {CON, END}
          /\ \A i \in 1..Len(subscribers') :
                LET before == get_subscriber(subscribers, subscribers'[i].phone_number)
                IN  Range(json_loads(subscribers'[i].subscribed_stocks))
                      \subseteq (IF before = None THEN {}
                                 ELSE Range(json_loads(before.subscribed_stocks)))]_vars

\* C21 witness: 3*1*add*1 answered with the error line and the message
\* while the catalog file is not valid JSON
C21_Witness ==
    /\ req.text = T(<<<<"3">>, <<"1">>, add, <<"1">>>>)
    /\ resp[2] = "Invalid stock number. Please try again.\n"
    /\ resp[3] = "No stock data available at the moment. Please try again later."
    /\ stocks_file.kind = "invalid"
    /\ get_subscriber(subscribers, req.phone_number) # None

\* the list a catalog file holds: its stocks when it is an object with the
\* key or a bare list, the empty list when it is missing, empty or invalid
ListIn(file) == IF file.kind \in {"dict", "list"} THEN file.stocks ELSE <<>>

\* C22: the service starts with the list the catalog file holds, the
\* scheduler's reader never raises, and a batch works with the list the
\* catalog file holds, be the file missing, empty, invalid, an object with
\* the key "stocks" or a bare list.
C22_ReadersYieldTheList ==
    /\ (scheduler.starts = 0 /\ ~Answered) => CURRENT_STOCKS_DATA = ListIn(stocks_file)
    /\ scheduler.raised # "AttributeError"
    /\ scheduler.pc = "sending" => scheduler.batch.current_stocks = ListIn(stocks_file)

\* the request was answered after a call of db.py raised
StoreCallRaised ==
    /\ Answered
    /\ req.db_calls # <<>>
    /\ req.db_calls[Len(req.db_calls)][2] = "OperationalError"

\* C23: a request during which a call on the store raises is answered
\* with a terminal END response of two pieces, the marker and a fixed
\* failure text that names nothing of the exception.
C23_StoreFailureAnsweredWithEnd ==
    StoreCallRaised
        => /\ resp[1] = END
           /\ Len(resp) = 2
           /\ "sqlite3.OperationalError" \notin Range(resp)

\* the table after the request, handled alone from arrival to response
HandledAlone(table, request) ==
    Run([f |-> NewRequest(request.phone_number, request.text), table |-> table,
         data |-> CURRENT_STOCKS_DATA, file |-> stocks_file, resp |-> <<>>]).table

\* the two tables hold the same record, or none, for every phone
SameRecords(table, other) ==
    \A phone_number \in Phones :
        get_subscriber(table, phone_number) = get_subscriber(other, phone_number)

\* both requests of the pair have been answered
BothAnswered == log # <<>> /\ \A w \in Workers : inflight[w].pc = "idle"

\* C24: two requests for different phones, interleaved at their database
\* calls in any way, leave the records that handling the one and then the
\* other leaves, in either order; and no step of a request changes the
\* record of a phone other than its own.
C24_DifferentPhonesIndependent ==
    /\ [](BothAnswered =>
            /\ SameRecords(subscribers,
                   HandledAlone(HandledAlone(log[1].table, log[1].requests[1]),
                                log[1].requests[2]))
            /\ SameRecords(subscribers,
                   HandledAlone(HandledAlone(log[1].table, log[1].requests[2]),
                                log[1].requests[1])))
    /\ [][\A w \in Workers :
             (inflight[w].pc # "idle" /\ inflight'[w] # inflight[w])
                => \A phone_number \in Phones \ {inflight[w].phone_number} :
                      get_subscriber(subscribers', phone_number)
                         = get_subscriber(subscribers, phone_number)]_vars

\* C24 witness: an add-stock for one phone and an unsubscribe for the
\* other were handled together, the one's list grew and the other's row
\* went
C24_Witness ==
    /\ BothAnswered
    /\ log[1].requests[1] = [phone_number |-> Subscriber, text |-> T(<<<<"1">>, <<"1">>>>)]
    /\ log[1].requests[2] = [phone_number |-> Neighbour, text |-> T(<<<<"4">>>>)]
    /\ get_subscriber(log[1].table, Neighbour) # None
    /\ get_subscriber(subscribers, Neighbour) = None
    /\ get_subscriber(log[1].table, Subscriber) # None
    /\ StocksOf(subscribers, Subscriber) # StocksOf(log[1].table, Subscriber)

\* the thread w is at its update_subscribed_stocks and performs it in this step
WritesList(w) ==
    inflight[w].pc \in {"update_selected", "update_removed"} /\ Completes(w)

\* the list the request of thread w made from the list it read
ListMadeBy(w) ==
    LET read == json_loads(inflight[w].subscriber.subscribed_stocks)
    IN  IF inflight[w].pc = "update_selected"
        THEN Append(read, inflight[w].name)
        ELSE WithoutNth(read, RemovedNumber(inflight[w].text))

\* no name occurs twice in the list
NoDuplicate(list) == \A i, j \in 1..Len(list) : list[i] = list[j] => i = j

\* both requests of the pair change the list of stocks
BothMutate ==
    /\ log # <<>>
    /\ \A i \in 1..2 : SelectedNumber(log[1].requests[i].text) > 0
                         \/ RemovedNumber(log[1].requests[i].text) > 0

\* C25: while two requests of one phone that change the list of stocks are
\* interleaved, each update_subscribed_stocks leaves in the row exactly the
\* list its own request made from the list it had read, no other step
\* changes the stored list, and the stored list never holds a name twice.
C25_LastWriterWins ==
    /\ []((BothMutate /\ get_subscriber(subscribers, Subscriber) # None)
              => NoDuplicate(StocksOf(subscribers, Subscriber)))
    /\ [][(BothMutate /\ get_subscriber(subscribers, Subscriber) # None)
            => /\ \A w \in Workers :
                      WritesList(w) => /\ get_subscriber(subscribers', Subscriber) # None
                                       /\ StocksOf(subscribers', Subscriber) = ListMadeBy(w)
               /\ (\A w \in Workers : ~WritesList(w)) => subscribers' = subscribers]_vars

\* C25 witness: the additions of Safaricom and of KCB both read the empty
\* list, both wrote, and the row holds KCB alone: the first addition is lost
C25_Witness ==
    /\ BothAnswered
    /\ log[1].requests[1].text = T(<<<<"1">>, <<"1">>>>)
    /\ log[1].requests[2].text = T(<<<<"1">>, <<"2">>>>)
    /\ get_subscriber(log[1].table, Subscriber) # None
    /\ StocksOf(log[1].table, Subscriber) = <<>>
    /\ StocksOf(subscribers, Subscriber) = <<"KCB">>

\* the pair is an unsubscribe and a request that adds a stock, removes a
\* stock or toggles a flag
UnsubscribeAndMutation ==
    /\ log # <<>>
    /\ \E i, j \in 1..2 :
          /\ i # j
          /\ log[1].requests[i].text = <<"4">>
          /\ \/ SelectedNumber(log[1].requests[j].text) > 0
             \/ RemovedNumber(log[1].requests[j].text) > 0
             \/ log[1].requests[j].text = T(<<<<"3">>, <<"2">>, <<"1">>>>)

\* C30: an unsubscribe and a request of the same phone that adds a stock,
\* removes a stock or toggles a flag, interleaved in any way, leave no row
\* for the phone once both are answered; and an UPDATE performed after the
\* row was deleted leaves the table as it is.
C30_UnsubscribeNotUndone ==
    /\ []((UnsubscribeAndMutation /\ BothAnswered)
              => get_subscriber(subscribers, Subscriber) = None)
    /\ [][\A w \in Workers :
             (/\ inflight[w].pc \in {"update_selected", "update_removed",
                                      "update_preference"}
              /\ Completes(w)
              /\ get_subscriber(subscribers, inflight[w].phone_number) = None)
             => subscribers' = subscribers]_vars

\* C30 witness: the addition read the row, the unsubscribe deleted it, the
\* addition then performed its UPDATE and was answered last, and the phone
\* has no row
C30_Witness ==
    /\ BothAnswered
    /\ log[1].requests[1].text = <<"4">>
    /\ log[1].requests[2].text = T(<<<<"1">>, <<"1">>>>)
    /\ req.text = T(<<<<"1">>, <<"1">>>>)
    /\ req.db_calls = <<<<"update_subscribed_stocks", "None">>>>
    /\ get_subscriber(log[1].table, Subscriber) # None
    /\ get_subscriber(subscribers, Subscriber) = None

\* the last-sent dates a scheduler started on the status file begins with
DatesIn(file) == IF file.kind = "json" THEN file.last_notification_sent ELSE NeverSent

Browsing(text) ==
    LET parts == split(text)
    IN  \/ text \in { <<>>, T(<<<<"2">>>>), T(<<<<"3">>>>), T(<<<<"3">>, <<"1">>>>),
                      T(<<<<"3">>, <<"1">>, add>>), T(<<<<"3">>, <<"2">>>>) }
        \/ Len(parts) = 2 /\ parts[1] = <<"2">>
        \/ Len(parts) >= 2 /\ parts[Len(parts)] = <<"0">>

\* C27: the handling of a browsing path leaves the table of subscribers as
\* it was, for the phone of the request and for every other phone, whatever
\* the table and the catalog.
C27_BrowsingLeavesStore ==
    [][Browsing(req'.text) => subscribers' = subscribers]_vars

\* C27 witness: the details of the first stock were shown to a phone whose
\* row holds a stock, while the other phone has a row too
C27_Witness ==
    /\ Answered
    /\ req.text = T(<<<<"2">>, <<"1">>>>)
    /\ resp[1] = END
    /\ Len(subscribers) = 2
    /\ get_subscriber(subscribers, req.phone_number) # None
    /\ StocksOf(subscribers, req.phone_number) # <<>>

\* the word the preferences menu shows for a stored flag
Rendered(flag) == IF flag = 1 THEN "ON" ELSE "OFF"

\* the row with the flag of the preference toggled, all else as it is
Toggled(row, text) ==
    IF text = T(<<<<"3">>, <<"2">>, <<"1">>>>)
    THEN [row EXCEPT !.market_open_notify = 1 - @]
    ELSE [row EXCEPT !.market_close_notify = 1 - @]

\* C28: a request 3*2*1 (3*2*2) of a phone that has a row leaves the row
\* with the market-open (market-close) flag inverted and with the other
\* flag and the list of stocks as they were, and the response shows for
\* each preference the word of the flag the row holds after the request.
C28_ToggleChangesOneFlag ==
    \A i \in 1..Len(log) :
        (/\ log[i].text \in {T(<<<<"3">>, <<"2">>, <<"1">>>>), T(<<<<"3">>, <<"2">>, <<"2">>>>)}
         /\ get_subscriber(TableBefore(i), Subscriber) # None)
        => LET before == get_subscriber(TableBefore(i), Subscriber)
               after == get_subscriber(log[i].table, Subscriber)
           IN  /\ after = Toggled(before, log[i].text)
               /\ Len(log[i].table) = Len(TableBefore(i))
               /\ log[i].resp[1] = CON
               /\ Says(log[i].resp, "1. Market Open: ", Rendered(after.market_open_notify))
               /\ Says(log[i].resp, "2. Market Close: ", Rendered(after.market_close_notify))

\* C28 witness: with Safaricom in the list and the close preference on,
\* 3*2*1 turned the open preference on; the list and the close preference
\* stayed and the response shows ON twice
C28_Witness ==
    /\ Len(log) = 4
    /\ log[2].text = T(<<<<"1">>, <<"1">>>>)
    /\ log[3].text = T(<<<<"3">>, <<"2">>, <<"2">>>>)
    /\ log[4].text = T(<<<<"3">>, <<"2">>, <<"1">>>>)
    /\ get_subscriber(log[4].table, Subscriber)
          = [phone_number |-> Subscriber, subscribed_stocks |-> json_dumps(<<"Safaricom">>),
             market_open_notify |-> 1, market_close_notify |-> 1]
    /\ Says(log[4].resp, "1. Market Open: ", "ON")
    /\ Says(log[4].resp, "2. Market Close: ", "ON")

\* the row the request leaves for its phone (None for no row) when it does
\* the one change its last segment selects in the context of the segments
\* before it: 1 inserts the row, 4 deletes it, 1*...*<n> and
\* 3*1*add*...*<n> append the n-th name of the catalog, 3*1*...*<n> takes
\* the n-th name from the list, 3*2*...*<1|2> inverts a flag; every other
\* text, and every selection out of range or already made, changes nothing
SelectedMutation(row, phone_number, text, catalog) ==
    LET parts == split(text)
        last == parts[Len(parts)]
        n == int(last)
        list == json_loads(row.subscribed_stocks)
        added == IF /\ row # None
                    /\ ~n.raises /\ 1 <= n.value /\ n.value <= Len(catalog)
                    /\ catalog[n.value].name \notin Range(list)
                 THEN [row EXCEPT !.subscribed_stocks =
                                     json_dumps(Append(list, catalog[n.value].name))]
                 ELSE row
        removed == IF ~n.raises /\ 1 <= n.value /\ n.value <= Len(list)
                   THEN [row EXCEPT !.subscribed_stocks =
                                       json_dumps(WithoutNth(list, n.value))]
                   ELSE row
    IN  IF text = <<"1">>
        THEN IF row = None
             THEN [phone_number |-> phone_number, subscribed_stocks |-> json_dumps(<<>>),
                   market_open_notify |-> 0, market_close_notify |-> 0]
             ELSE row
        ELSE IF text = <<"4">> THEN None
        ELSE IF startswith(text, <<"1", "*">>) THEN added
        ELSE IF startswith(text, <<"3", "*", "1", "*">>) /\ row # None
        THEN IF last = <<"0">> \/ lower(last) = add THEN row
             ELSE IF lower(parts[3]) = add /\ isdigit(last) THEN added
             ELSE removed
        ELSE IF startswith(text, <<"3", "*", "2", "*">>) /\ row # None
        THEN IF last = <<"1">> THEN [row EXCEPT !.market_open_notify = 1 - @]
             ELSE IF last = <<"2">> THEN [row EXCEPT !.market_close_notify = 1 - @]
             ELSE row
        ELSE row

\* C29: the handling of a request calls at most one mutating function of
\* the store, leaves for the phone of the request the row that the one
\* change selected by the last segment of the text gives, and leaves the
\* rows of the other phones as they were; a text p*<s> therefore applies
\* the change of <s> alone and not again the change of p.
C29_OneMutationByLastSegment ==
    [][/\ Len(req'.db_calls) <= 1
       /\ get_subscriber(subscribers', req'.phone_number)
             = SelectedMutation(get_subscriber(subscribers, req'.phone_number),
                                req'.phone_number, req'.text, CURRENT_STOCKS_DATA)
       /\ \A phone_number \in Phones \ {req'.phone_number} :
             get_subscriber(subscribers', phone_number)
                = get_subscriber(subscribers, phone_number)
       /\ \A phone_number \in Phones : AtMostOneRow(subscribers', phone_number)]_vars

\* C29 witness: the text 1*1*2 was handled for a phone whose list held
\* Safaricom, the stock that 1*1 selects: one update, KCB appended, and
\* Safaricom in the list once
C29_Witness ==
    /\ Answered
    /\ req.text = T(<<<<"1">>, <<"1">>, <<"2">>>>)
    /\ req.db_calls = <<<<"update_subscribed_stocks", "None">>>>
    /\ CURRENT_STOCKS_DATA = SmallCatalog
    /\ StocksOf(subscribers, req.phone_number) = <<"Safaricom", "KCB">>

\* the loop is at its head, at a tick inside market hours of a weekday, with
\* the last scrape time cleared by the reset of 00:05
FirstTickAfterReset ==
    /\ scheduler.pc = "awake"
    /\ scheduler.last_scrape_time = None
    /\ is_weekday(clock)
    /\ is_during_market_hours(clock)

\* C31: at the first tick inside market hours of a weekday after the reset
\* of 00:05, the pass of the loop raises nothing, and when the process is
\* left running it has scraped: the last scrape time is the time of the
\* tick and the loop is at its notification batch or at its sleep.
C31_LoopSurvivesReset ==
    [][(FirstTickAfterReset /\ scheduler' # scheduler)
          => /\ scheduler'.raised = ""
             /\ scheduler'.pc # "down"
                   => /\ scheduler'.pc \in {"sending", "sleep"}
                      /\ scheduler'.last_scrape_time = datetime_now(clock)]_vars

\* the loop is at its head at a tick of a notification window whose kind
\* has not been recorded for the day
BatchDue ==
    /\ scheduler.pc = "awake"
    /\ scheduler.last_scrape_time # None
    /\ notification_window(clock) # ""
    /\ scheduler.last_notification_sent[notification_window(clock)]
          # today_date_str(clock)

\* the step is a pass of the loop that left the process running
PassOfLoop == scheduler' # scheduler /\ scheduler'.pc # "down"

\* C32: a pass of the loop at a tick of a notification window whose kind
\* is not recorded for the day, finding no stock data in the catalog file,
\* sends nothing, begins no loop over the subscribers and leaves the
\* recorded dates, in memory and in the status file, as they were; such a
\* pass finding stock data begins the batch of the kind, also at a later
\* tick of the same window; and the status file gets a date under a kind
\* only in the step that follows the last turn of the loop over the
\* subscribers of a batch of that kind, the date being that batch's day.
C32_EmptyBatchNotRecorded ==
    /\ [][(BatchDue /\ PassOfLoop /\ ListIn(stocks_file') = <<>>)
            => /\ sms_log' = sms_log
               /\ scheduler'.pc = "sleep"
               /\ scheduler'.last_notification_sent = scheduler.last_notification_sent
               /\ DatesIn(status_file') = scheduler.last_notification_sent]_vars
    /\ [][(BatchDue /\ PassOfLoop /\ stocks_file'.kind = "dict")
            => /\ scheduler'.pc = "sending"
               /\ scheduler'.batch.notification_type = notification_window(clock)
               /\ scheduler'.batch.today_date_str = today_date_str(clock)]_vars
    /\ [][\A kind \in {"open", "close"} :
             (/\ DatesIn(status_file')[kind] # DatesIn(status_file)[kind]
              /\ DatesIn(status_file')[kind] # None)
             => /\ scheduler.pc = "sending"
                /\ scheduler.batch.i > Len(scheduler.batch.subscribers)
                /\ scheduler.batch.notification_type = kind
                /\ DatesIn(status_file')[kind] = scheduler.batch.today_date_str]_vars

\* C32 witness: the pass of 08:00 of the first day found no stock data in
\* the catalog file and has gone to sleep: nothing sent, no date recorded
\* in memory or in the status file, and the tick of 08:06 still to come
C32_Witness ==
    /\ scheduler.pc = "sleep"
    /\ scheduler.now = clock
    /\ clock.day = 0
    /\ TickMinutes[clock.slot] = MARKET_OPEN_HOUR * 60
    /\ notification_window(clock) = "open"
    /\ ListIn(stocks_file) = <<>>
    /\ status_file.kind = "json"
    /\ scheduler.last_notification_sent = NeverSent
    /\ DatesIn(status_file) = NeverSent
    /\ sms_log = <<>>

====
